---- MODULE Spec2Model ----
(***************************************************************************)
(* Resilient external-call orchestration of the meeting summarizer:        *)
(* AIService (backend/utils/ai-service.js) and EmailService                *)
(* (backend/utils/email-service.js): bounded retry with exponential        *)
(* backoff, the timeout race, and the retryable/fatal error classifiers.   *)
(*                                                                         *)
(* One action is one turn of the event loop: the synchronous code that     *)
(* runs between two awaits of a call.                                      *)
(***************************************************************************)
EXTENDS Integers, Sequences, FiniteSets, TLC

\* ------------------------------------------------------------------ bounds

\* Largest maxRetries a service is configured with.
MaxRetriesBound == 2
\* Number of generateSummary calls that may be in flight on the one AIService.
NumAICalls == 1
\* Number of requests of a behaviour that the rate limiters deny.
MaxDenied == 2
\* Number of requests of a behaviour that the server hands to an adapter.
MaxServed == 1
\* Number of requests of a behaviour that arrive while a route handler is
\* suspended at its await of an adapter.
MaxOverlap == 1
\* Number of requests of a behaviour to a route other than /api/health that
\* has no limiter of its own.
MaxPlain == 3
\* Number of requests of a behaviour that pass the cache middleware.
MaxLookups == 3
\* Number of requests whose downstream handler has not answered yet.
MaxPending == 2
\* generateSummary calls that share one service and may be in flight together
NumConcurrent == 3
\* the responses the metrics middleware sees in the behaviours that fill a
\* latency window
MaxSamples == 101

\* --------------------------------------------------------- program constants

\* ai-service.js:23  maxRetries: 2   (constructor default)
AIDefaultMaxRetries == 2
\* ai-service.js:24  timeout: 30000  (constructor default)
AIDefaultTimeout == 30000
\* ai-service.js:128 Math.pow(2, attempt) * 500
AIBackoffBase == 500
\* email-service.js:56 config.maxRetries || 2
EmailDefaultMaxRetries == 2
\* email-service.js:163 Math.pow(2, attempt) * 1000
EmailBackoffBase == 1000
\* email-service.js:172 30 second timeout
EmailTimeout == 30000

\* ------------------------------------------------------------------ values

\* A JS error object: message (a sequence of words), error.code ("" when the
\* error carries none), error.status (0 when it carries none; both are falsy
\* in `error.code && ...` / `error.status && ...`).
Err(msg, code, status) == [message |-> msg, code |-> code, status |-> status]

NoError == Err(<<"<none>">>, "", 0)

\* String.prototype.includes at word granularity: pat occurs in msg as a
\* contiguous run of words.
Includes(msg, pat) ==
  \E i \in 1..(Len(msg) - Len(pat) + 1) : SubSeq(msg, i, i + Len(pat) - 1) = pat

TimedOutWords == <<"timed", "out">>

\* ai-service.js:135  new Error('API request timed out')
AITimeoutError == Err(<<"API", "request", "timed", "out">>, "", 0)
\* email-service.js:171  new Error('Email sending operation timed out')
EmailTimeoutError == Err(<<"Email", "sending", "operation", "timed", "out">>, "", 0)

\* 2^n, Math.pow(2, n) for the attempt indices of the loops.
RECURSIVE Pow2(_)
Pow2(n) == IF n = 0 THEN 1 ELSE 2 * Pow2(n - 1)

RECURSIVE GCD(_, _)
GCD(a, b) == IF b = 0 THEN a ELSE GCD(b, a % b)

\* An exact non-negative fraction, kept in lowest terms.
Frac(n, d) == LET g == GCD(n, d) IN [num |-> n \div g, den |-> d \div g]

\* ------------------------------------------------------- error classifiers

\* Faulty variant: 504 left out of the list.
retryableStatusCodes_No504 == {408, 429, 500, 502, 503}

\* ai-service.js:166
retryableStatusCodes == {408, 429, 500, 502, 503, 504}

\* Faulty variant: the fall-through answer is true.
_isRetryableError_DefaultTrue(error) == TRUE

\* AIService._isRetryableError (ai-service.js:164-184)
_isRetryableError(error) ==
  IF Includes(error.message, TimedOutWords) THEN TRUE
  ELSE IF error.code = "ECONNRESET" \/ error.code = "ECONNREFUSED" THEN TRUE
  ELSE IF error.status # 0 /\ error.status \in retryableStatusCodes THEN TRUE
  ELSE FALSE

\* email-service.js:208-211
retryableErrorCodes ==
  {"ECONNREFUSED", "ETIMEDOUT", "ECONNRESET", "ESOCKET",
   "EENVELOPE", "EMESSAGE", "421", "450", "451", "452"}

\* Faulty variant: only the listed codes are retryable, a timeout is not.
_isRetryableEmailError_CodesOnly(error) ==
  error.code # "" /\ error.code \in retryableErrorCodes

\* EmailService._isRetryableEmailError (email-service.js:206-224)
_isRetryableEmailError(error) ==
  IF error.code # "" /\ error.code \in retryableErrorCodes THEN TRUE
  ELSE IF error.message # <<>> /\ Includes(error.message, TimedOutWords) THEN TRUE
  ELSE FALSE

\* ------------------------------------------------------------------ inputs

\* Failures the provider client / the SMTP transport may deliver to a call.
ServiceUnavailable == Err(<<"Service", "Unavailable">>, "", 503)
NotFound           == Err(<<"Not", "Found">>, "", 404)
ConnReset          == Err(<<"socket", "hang", "up">>, "ECONNRESET", 0)
ConnTimedOut       == Err(<<"connect", "ETIMEDOUT">>, "ETIMEDOUT", 0)
BadEnvelope        == Err(<<"No", "recipients", "defined">>, "EENVELOPE", 0)
AuthFailed         == Err(<<"Invalid", "login">>, "EAUTH", 0)
PlainFailure       == Err(<<"Unexpected", "failure">>, "", 0)

FailureInputs ==
  {ServiceUnavailable, NotFound, ConnReset, ConnTimedOut, BadEnvelope,
   AuthFailed, PlainFailure}

\* Errors handed to the two classifiers alone: every combination of message,
\* code and status that the decision table distinguishes.
MessageInputs ==
  { <<"Request", "timed", "out">>, <<"Unexpected", "failure">>,
    <<"out", "of", "time">>, <<"timed">> }
CodeInputs ==
  {"", "ECONNREFUSED", "ECONNRESET", "ETIMEDOUT", "ESOCKET",
   "EENVELOPE", "EMESSAGE", "421", "450", "451", "452", "EAUTH"}
StatusInputs == {0, 200, 302} \cup (400..504) \cup {599}
ErrorInputs ==
  { Err(m, c, s) : m \in MessageInputs, c \in CodeInputs, s \in StatusInputs }

\* Completion content that is undefined (choices[0]?.message?.content).
Undefined == "<undefined>"

\* !value for a string or undefined
Falsy(s) == s = "" \/ s = Undefined

\* Provider completions: content and usage.total_tokens (0: usage missing).
Resp(content, tokens) == [content |-> content, tokens |-> tokens]
NoResponse == Resp(Undefined, 0)
ResponseInputs ==
  { Resp("# Summary A", 120), Resp("# Summary B", 0),
    Resp("", 35), Resp(Undefined, 0) }

\* What an operation may settle with after its timer has fired.
LateResponseInputs == { Resp("# Late summary", 90) }
LateFailureInputs == { ConnReset }

\* How long the external operation takes when it settles before the timeout.
DurationInputs == {250}

\* Constructor argument config.maxRetries: <<>> when not given, <<n>> when given.
MaxRetriesInputs == {<<>>} \cup { <<n>> : n \in 0..MaxRetriesBound }

AICalls == 1..NumAICalls

\* ------------------------------------------------------------------- state

VARIABLES
  configIn,      \* the constructor arguments [ai, email]: config.maxRetries
  aiConfig,      \* AIService.config  (maxRetries, timeout)
  aiMetrics,     \* AIService.metrics
  aiCalls,       \* the generateSummary calls, by call id
  emailMaxRetries, \* EmailService.maxRetries
  emailMetrics,  \* EmailService.metrics
  emailCall,     \* the sendSummaryEmail call
  probe,         \* an error handed to the classifiers
  verdict,       \* what the classifiers answered for probe
  now,           \* Date.now(), in ms since the process started
  env,           \* process.env: which of the two services are configured
  client,        \* the route the one client of a behaviour sends its requests to
  rateWindows,   \* the client's window in the store of each rate limiter
  serverMetrics, \* the server's counters (ai-service.js:437-445)
  httpReq,       \* the client's latest HTTP request and its response
  denials,       \* number of requests a rate limiter has answered with 429
  served,        \* number of requests a route handler has handed to an adapter
  overlaps,      \* number of requests that arrived while a handler was suspended
  uploads,       \* the files of the uploads whose handler awaits their text
  mcache,        \* the memory-cache store: the entry of each key
  pending,       \* the requests passed on to the downstream handler, not answered
  cacheLast,     \* the latest operation on the cache and what it did
  lookups        \* number of requests that passed the cache middleware

vars == <<configIn, aiConfig, aiMetrics, aiCalls,
          emailMaxRetries, emailMetrics, emailCall, probe, verdict,
          now, env, client, rateWindows, serverMetrics, httpReq, denials,
          served, overlaps, uploads, mcache, pending, cacheLast, lookups>>

aiVars == <<aiConfig, aiMetrics, aiCalls>>
emailVars == <<emailMaxRetries, emailMetrics, emailCall>>
probeVars == <<probe, verdict>>
serverVars ==
  <<now, env, client, rateWindows, serverMetrics, httpReq, denials, served,
    overlaps, uploads>>
\* what the adapters neither read nor write
trafficVars ==
  <<env, client, rateWindows, serverMetrics, httpReq, denials, served,
    overlaps, uploads>>
cacheVars == <<mcache, pending, cacheLast, lookups>>
hostVars == <<serverVars, cacheVars>>

\* -------------------------------------------------------------- AIService

\* AIService constructor (ai-service.js:20-48): defaults, overridden by the
\* fields that config gives.
AIServiceConfig(given) ==
  [maxRetries |-> IF given = <<>> THEN AIDefaultMaxRetries ELSE given[1],
   timeout    |-> AIDefaultTimeout]

\* this.metrics after construction (ai-service.js:40-47)
AIServiceMetrics ==
  [requestCount |-> 0, successCount |-> 0, failureCount |-> 0,
   totalTokensUsed |-> 0, averageLatency |-> Frac(0, 1),
   requestsInProgress |-> 0]

\* How a promise settled: kind "none" while pending, "ok" or "err" after;
\* from is the attempt whose operation or timer decided it.
NoOutcome == [kind |-> "none", from |-> 0, response |-> NoResponse, error |-> NoError]
Resolved(from, response) ==
  [kind |-> "ok", from |-> from, response |-> response, error |-> NoError]
Rejected(from, error) ==
  [kind |-> "err", from |-> from, response |-> NoResponse, error |-> error]

\* One generateSummary call. pc is the await the call is suspended at:
\*   "idle"  not started          "sleep" the backoff setTimeout (line 130)
\*   "race"  Promise.race (139)   "done"  settled
\* attempt, lastError are the locals of _makeRequestWithRetry; the rest records
\* what the call did: requestFn invocations, the delays slept, the failed
\* attempts, the requests still outstanding after their timer fired first,
\* the number of results that arrived after their timer, how
\* _makeRequestWithRetry settled (loop), how generateSummary settled (result,
\* its value being the returned string).
IdleAICall ==
  [pc |-> "idle", attempt |-> 0, lastError |-> NoError, delay |-> 0,
   elapsed |-> 0, invocations |-> 0, slept |-> <<>>,
   failed |-> 0, retryableFailed |-> 0, late |-> {},
   discarded |-> 0, loop |-> NoOutcome, result |-> NoOutcome, value |-> Undefined]

\* Faulty variant: the exponent is the index of the attempt that failed.
AIBackoffDelay_FailedIndex(attempt) == Pow2(attempt - 1) * AIBackoffBase

\* ai-service.js:128  const delay = Math.pow(2, attempt) * 500
AIBackoffDelay(attempt) == Pow2(attempt) * AIBackoffBase

\* Faulty variant: < for <=.
AILoopCondition_Strict(attempt, maxRetries) == attempt < maxRetries

\* ai-service.js:124  attempt <= this.config.maxRetries
AILoopCondition(attempt, maxRetries) == attempt <= maxRetries

\* Faulty variant: the last retry is never made.
AIShouldRetry_OffByOne(error, attempt, maxRetries) ==
  _isRetryableError(error) /\ attempt + 1 < maxRetries

\* ai-service.js:144
AIShouldRetry(error, attempt, maxRetries) ==
  _isRetryableError(error) /\ attempt < maxRetries

\* ai-service.js:133-139: the timer is set, requestFn() is invoked, and the
\* call awaits the race of the two.
AIStartRace(call) ==
  [call EXCEPT !.pc = "race", !.invocations = @ + 1]

\* Faulty variant: the next attempt starts without waiting for the backoff delay.
AILoopHead_NoBackoff(call, maxRetries) ==
  IF ~AILoopCondition(call.attempt, maxRetries)
    THEN [call EXCEPT !.pc = "settled", !.loop = Rejected(call.attempt - 1, call.lastError)]
    ELSE AIStartRace(call)

\* ai-service.js:124-131: the head of one loop iteration. When the loop
\* condition fails the function throws lastError (line 155).
AILoopHead(call, maxRetries) ==
  IF ~AILoopCondition(call.attempt, maxRetries)
    THEN [call EXCEPT !.pc = "settled", !.loop = Rejected(call.attempt - 1, call.lastError)]
  ELSE IF call.attempt > 0
    THEN [call EXCEPT !.pc = "sleep", !.delay = AIBackoffDelay(call.attempt)]
  ELSE AIStartRace(call)

\* ai-service.js:140-155: the catch block of the attempt that just failed.
AICatch(call, error, maxRetries) ==
  LET seen == [call EXCEPT
                 !.lastError = error,
                 !.failed = @ + 1,
                 !.retryableFailed = @ + (IF _isRetryableError(error) THEN 1 ELSE 0)]
  IN IF AIShouldRetry(error, call.attempt, maxRetries)
       THEN AILoopHead([seen EXCEPT !.attempt = @ + 1], maxRetries)
       ELSE [seen EXCEPT !.pc = "settled", !.loop = Rejected(call.attempt, error)]

\* ai-service.js:139  return await Promise.race(...), the race resolving
AIReturn(call, response) ==
  [call EXCEPT !.pc = "settled", !.loop = Resolved(call.attempt, response)]

\* ai-service.js:87 / 109: the errors generateSummary itself creates
EmptyResponseError ==
  Err(<<"Empty", "response", "received", "from", "AI", "provider">>, "", 0)
SummaryFailure(error) ==
  Err(<<"Failed", "to", "generate", "summary:">> \o error.message, "", 0)

\* Faulty variant: the mean of the old average and the latest latency.
RunningAverage_Halved(avg, n, latency) ==
  Frac(avg.num + latency * avg.den, avg.den * 2)

\* ai-service.js:97-99  (avg * (n - 1) + latency) / n, n the new successCount
RunningAverage(avg, n, latency) ==
  Frac(avg.num * (n - 1) + latency * avg.den, avg.den * n)

\* Faulty variant: the success counters are updated before the content is validated.
SummaryMetrics_CountsEmpty(call, m) ==
  LET n == m.successCount + 1
  IN IF call.loop.kind = "ok"
       THEN [m EXCEPT
               !.successCount = n,
               !.totalTokensUsed = @ + call.loop.response.tokens,
               !.averageLatency = RunningAverage(@, n, call.elapsed),
               !.requestsInProgress = @ - 1]
       ELSE [m EXCEPT !.failureCount = @ + 1, !.requestsInProgress = @ - 1]

\* ai-service.js:84-112: generateSummary once _makeRequestWithRetry has
\* settled; the metrics it leaves.
SummaryMetrics(call, m) ==
  LET ok == call.loop.kind = "ok" /\ ~Falsy(call.loop.response.content)
      n  == m.successCount + 1
  IN IF ok
       THEN [m EXCEPT
               !.successCount = n,
               !.totalTokensUsed = @ + call.loop.response.tokens,
               !.averageLatency = RunningAverage(@, n, call.elapsed),
               !.requestsInProgress = @ - 1]
       ELSE [m EXCEPT !.failureCount = @ + 1, !.requestsInProgress = @ - 1]

\* ai-service.js:84-112: generateSummary once _makeRequestWithRetry has
\* settled; how the call settles.
SummarySettle(call) ==
  IF call.loop.kind = "ok"
    THEN IF Falsy(call.loop.response.content)
           THEN [call EXCEPT !.pc = "done",
                   !.result = Rejected(call.loop.from, SummaryFailure(EmptyResponseError))]
           ELSE [call EXCEPT !.pc = "done",
                   !.result = Resolved(call.loop.from, call.loop.response),
                   !.value = call.loop.response.content]
    ELSE [call EXCEPT !.pc = "done",
            !.result = Rejected(call.loop.from, SummaryFailure(call.loop.error))]

\* The state after the turn that left call c as `call`.
AIContinue(c, call, m) ==
  IF call.pc = "settled"
    THEN /\ aiCalls' = [aiCalls EXCEPT ![c] = SummarySettle(call)]
         /\ aiMetrics' = SummaryMetrics(call, m)
    ELSE /\ aiCalls' = [aiCalls EXCEPT ![c] = call]
         /\ aiMetrics' = m

\* Faulty variant: requestsInProgress is not incremented.
GenerateSummaryCall_NotInProgress(c) ==
  AIContinue(c, AILoopHead(IdleAICall, aiConfig.maxRetries),
             [aiMetrics EXCEPT !.requestCount = @ + 1])

\* generateSummary is called (ai-service.js:57-81 and the first iteration of
\* the loop up to its await).
GenerateSummaryCall(c) ==
  AIContinue(c, AILoopHead(IdleAICall, aiConfig.maxRetries),
             [aiMetrics EXCEPT !.requestCount = @ + 1,
                               !.requestsInProgress = @ + 1])

\* A caller that holds the service calls generateSummary.
GenerateSummary(c) ==
  /\ aiCalls[c].pc = "idle"
  /\ GenerateSummaryCall(c)
  /\ UNCHANGED <<configIn, aiConfig, emailVars, probeVars>>

\* The provider answers the current attempt's request before its timer fires.
RequestResolves(c, response, d) ==
  /\ aiCalls[c].pc = "race"
  /\ AIContinue(c, AIReturn([aiCalls[c] EXCEPT !.elapsed = @ + d], response),
                aiMetrics)
  /\ UNCHANGED <<configIn, aiConfig, emailVars, probeVars>>

\* The current attempt's request fails before its timer fires.
RequestRejects(c, error, d) ==
  /\ aiCalls[c].pc = "race"
  /\ AIContinue(c, AICatch([aiCalls[c] EXCEPT !.elapsed = @ + d], error,
                           aiConfig.maxRetries), aiMetrics)
  /\ UNCHANGED <<configIn, aiConfig, emailVars, probeVars>>

\* The current attempt's timer fires first (ai-service.js:134-136); the
\* request is not cancelled and stays outstanding.
RequestTimesOut(c) ==
  /\ aiCalls[c].pc = "race"
  /\ LET call == aiCalls[c]
     IN AIContinue(c, AICatch([call EXCEPT !.elapsed = @ + aiConfig.timeout,
                                           !.late = @ \cup {call.attempt}],
                              AITimeoutError, aiConfig.maxRetries), aiMetrics)
  /\ UNCHANGED <<configIn, aiConfig, emailVars, probeVars>>

\* The backoff delay has elapsed (ai-service.js:130): the next attempt starts.
BackoffElapses(c) ==
  /\ aiCalls[c].pc = "sleep"
  /\ LET call == aiCalls[c]
     IN aiCalls' = [aiCalls EXCEPT ![c] =
          AIStartRace([call EXCEPT !.elapsed = @ + call.delay,
                                   !.slept = Append(@, call.delay),
                                   !.delay = 0])]
  /\ UNCHANGED <<configIn, aiConfig, aiMetrics, emailVars, probeVars>>

\* Faulty variant: one promise is shared by the attempts, so a response that arrives
\* late resolves the race the call is awaiting now.
AILateResult_Adopted(call, a, outcome) ==
  IF call.pc = "race" /\ outcome.kind = "ok"
    THEN AIReturn([call EXCEPT !.late = @ \ {a}], outcome.response)
    ELSE [call EXCEPT !.late = @ \ {a}, !.discarded = @ + 1]

\* What the settling of a request that lost its race does to the call: the
\* race is decided already, the result goes nowhere.
AILateResult(call, a, outcome) ==
  [call EXCEPT !.late = @ \ {a}, !.discarded = @ + 1]

\* A request whose timer fired first settles afterwards, with a response or
\* a failure.
LateRequestSettles(c, a, outcome) ==
  /\ a \in aiCalls[c].late
  /\ AIContinue(c, AILateResult(aiCalls[c], a, outcome), aiMetrics)
  /\ UNCHANGED <<configIn, aiConfig, emailVars, probeVars>>

\* What a request may settle with after its timer has fired.
LateOutcomes(a) ==
  {Resolved(a, r) : r \in LateResponseInputs}
    \cup {Rejected(a, e) : e \in LateFailureInputs}

\* ------------------------------------------------------------ EmailService

\* EmailService constructor (email-service.js:56): config.maxRetries || 2
EmailServiceMaxRetries(given) ==
  IF given = <<>> \/ given[1] = 0 THEN EmailDefaultMaxRetries ELSE given[1]

\* this.metrics after construction (email-service.js:49-53)
EmailServiceMetrics ==
  [emailsSent |-> 0, emailsFailed |-> 0, lastEmailSent |-> "null"]

\* What transporter.sendMail resolves with.
Info(messageId) == [messageId |-> messageId]
NoInfo == Info(Undefined)
InfoInputs == { Info("<msg-1@relay>") }

\* An email address, character by character.
AnnAddress == <<"a", "@", "x", ".", "i", "o">>
BobAddress == <<"b", "@", "y", ".", "i", "o">>
NoDotAddress == <<"b", "@", "x">>
TabAddress == <<"a", "\t", "@", "x", ".", "i", "o">>
NotAnEmail == <<"n", "o", "t", "-", "a", "n", "-", "e", "m", "a", "i", "l">>

\* The emailData argument of sendSummaryEmail.
EmailData(recipients, summary) == [recipients |-> recipients, summary |-> summary]
EmailDataInputs ==
  { EmailData(r, s) :
      r \in { <<>>, <<NotAnEmail>>, <<AnnAddress, BobAddress>> },
      s \in { "", "# Notes" } }

SendNoOutcome == [kind |-> "none", from |-> 0, info |-> NoInfo, error |-> NoError]
SendResolved(from, info) ==
  [kind |-> "ok", from |-> from, info |-> info, error |-> NoError]
SendRejected(from, error) ==
  [kind |-> "err", from |-> from, info |-> NoInfo, error |-> error]

\* What sendSummaryEmail returns (email-service.js:135-140), without the
\* timestamp.
NoSendResult == [success |-> FALSE, messageId |-> Undefined, recipients |-> 0]

\* The sendSummaryEmail call; the fields are those of a generateSummary call,
\* with the emailData it was given and the number of messages the transport
\* accepted for it.
IdleEmailCall ==
  [pc |-> "idle", data |-> EmailData(<<>>, ""), attempt |-> 0,
   lastError |-> NoError, delay |-> 0, elapsed |-> 0, invocations |-> 0,
   slept |-> <<>>, failed |-> 0, retryableFailed |-> 0,
   late |-> {}, discarded |-> 0, accepted |-> 0,
   loop |-> SendNoOutcome, result |-> SendNoOutcome, value |-> NoSendResult]

\* Faulty variant: the first retry waits the base delay.
EmailBackoffDelay_FromBase(attempt) == Pow2(attempt - 1) * EmailBackoffBase

\* email-service.js:163  const delay = Math.pow(2, attempt) * 1000
EmailBackoffDelay(attempt) == Pow2(attempt) * EmailBackoffBase

\* Faulty variant: < for <=.
EmailLoopCondition_Strict(attempt, maxRetries) == attempt < maxRetries

\* email-service.js:159  attempt <= this.maxRetries
EmailLoopCondition(attempt, maxRetries) == attempt <= maxRetries

\* Faulty variant: every error is retried while attempts remain.
EmailShouldRetry_AnyError(error, attempt, maxRetries) == attempt < maxRetries

\* email-service.js:188
EmailShouldRetry(error, attempt, maxRetries) ==
  _isRetryableEmailError(error) /\ attempt < maxRetries

\* email-service.js:169-174: the timer is set and sendMail is invoked.
EmailStartSend(call) ==
  [call EXCEPT !.pc = "race", !.invocations = @ + 1]

\* email-service.js:159-166: the head of one loop iteration.
EmailLoopHead(call, maxRetries) ==
  IF ~EmailLoopCondition(call.attempt, maxRetries)
    THEN [call EXCEPT !.pc = "settled",
            !.loop = SendRejected(call.attempt - 1, call.lastError)]
  ELSE IF call.attempt > 0
    THEN [call EXCEPT !.pc = "sleep", !.delay = EmailBackoffDelay(call.attempt)]
  ELSE EmailStartSend(call)

\* email-service.js:184-197: the catch block of the attempt that just failed.
EmailCatch(call, error, maxRetries) ==
  LET seen == [call EXCEPT
                 !.lastError = error,
                 !.failed = @ + 1,
                 !.retryableFailed =
                    @ + (IF _isRetryableEmailError(error) THEN 1 ELSE 0)]
  IN IF EmailShouldRetry(error, call.attempt, maxRetries)
       THEN EmailLoopHead([seen EXCEPT !.attempt = @ + 1], maxRetries)
       ELSE [seen EXCEPT !.pc = "settled", !.loop = SendRejected(call.attempt, error)]

\* email-service.js:175-178: sendMail resolved while the attempt was awaited.
EmailReturn(call, info) ==
  [call EXCEPT !.pc = "settled", !.accepted = @ + 1,
               !.loop = SendResolved(call.attempt, info)]

\* email-service.js:89 / 93 / 146: the errors sendSummaryEmail itself creates
RecipientsError ==
  Err(<<"Recipients", "must", "be", "a", "non-empty", "array">>, "", 0)
SummaryRequiredError == Err(<<"Summary", "content", "is", "required">>, "", 0)
SendFailure(error) == Err(<<"Email", "sending", "failed:">> \o error.message, "", 0)

\* Faulty variant: the syntax of the addresses is checked too.
EmailValidation_ChecksSyntax(data) ==
  IF Len(data.recipients) = 0
       \/ \E i \in 1..Len(data.recipients) :
            \A k \in 1..Len(data.recipients[i]) : data.recipients[i][k] # "@"
    THEN RecipientsError
  ELSE IF Falsy(data.summary) THEN SummaryRequiredError
  ELSE NoError

\* email-service.js:87-94: the input validation; NoError when the data pass.
EmailValidation(data) ==
  IF Len(data.recipients) = 0 THEN RecipientsError
  ELSE IF Falsy(data.summary) THEN SummaryRequiredError
  ELSE NoError

\* email-service.js:127-147: sendSummaryEmail once _sendWithRetry has settled;
\* the metrics it leaves.
SendMetrics(call, m) ==
  IF call.loop.kind = "ok"
    THEN [m EXCEPT !.emailsSent = @ + 1, !.lastEmailSent = "timestamp"]
    ELSE [m EXCEPT !.emailsFailed = @ + 1]

\* email-service.js:127-147: how the call settles.
SendSettle(call) ==
  IF call.loop.kind = "ok"
    THEN [call EXCEPT !.pc = "done",
            !.result = SendResolved(call.loop.from, call.loop.info),
            !.value = [success |-> TRUE, messageId |-> call.loop.info.messageId,
                       recipients |-> Len(call.data.recipients)]]
    ELSE [call EXCEPT !.pc = "done",
            !.result = SendRejected(call.loop.from, SendFailure(call.loop.error))]

\* The state after the turn that left the call as `call`.
EmailContinue(call) ==
  IF call.pc = "settled"
    THEN /\ emailCall' = SendSettle(call)
         /\ emailMetrics' = SendMetrics(call, emailMetrics)
    ELSE /\ emailCall' = call
         /\ UNCHANGED emailMetrics

\* sendSummaryEmail is called (email-service.js:84-128 and the first iteration
\* of the loop up to its await). Invalid data reject the call before the try
\* block: no counter changes.
SendSummaryEmailCall(data) ==
  LET call == [IdleEmailCall EXCEPT !.data = data]
      bad  == EmailValidation(data)
  IN IF bad # NoError
       THEN /\ emailCall' = [call EXCEPT !.pc = "done",
                                         !.result = SendRejected(0, bad)]
            /\ UNCHANGED emailMetrics
       ELSE EmailContinue(EmailLoopHead(call, emailMaxRetries))

\* A caller that holds the service calls sendSummaryEmail.
SendSummaryEmail(data) ==
  /\ emailCall.pc = "idle"
  /\ SendSummaryEmailCall(data)
  /\ UNCHANGED <<configIn, emailMaxRetries, aiVars, probeVars>>

\* sendMail resolves before the attempt's timer fires (the timer is cleared).
SendMailResolves(info, d) ==
  /\ emailCall.pc = "race"
  /\ EmailContinue(EmailReturn([emailCall EXCEPT !.elapsed = @ + d], info))
  /\ UNCHANGED <<configIn, emailMaxRetries, aiVars, probeVars>>

\* sendMail rejects before the attempt's timer fires (the timer is cleared).
SendMailRejects(error, d) ==
  /\ emailCall.pc = "race"
  /\ EmailContinue(EmailCatch([emailCall EXCEPT !.elapsed = @ + d], error,
                              emailMaxRetries))
  /\ UNCHANGED <<configIn, emailMaxRetries, aiVars, probeVars>>

\* The attempt's timer fires first (email-service.js:170-172); sendMail is
\* not cancelled and stays outstanding.
SendTimesOut ==
  /\ emailCall.pc = "race"
  /\ EmailContinue(EmailCatch([emailCall EXCEPT
                                 !.elapsed = @ + EmailTimeout,
                                 !.late = @ \cup {emailCall.attempt}],
                              EmailTimeoutError, emailMaxRetries))
  /\ UNCHANGED <<configIn, emailMaxRetries, aiVars, probeVars>>

\* The backoff delay has elapsed (email-service.js:165): the next attempt starts.
EmailBackoffElapses ==
  /\ emailCall.pc = "sleep"
  /\ emailCall' = EmailStartSend([emailCall EXCEPT
                                    !.elapsed = @ + emailCall.delay,
                                    !.slept = Append(@, emailCall.delay),
                                    !.delay = 0])
  /\ UNCHANGED <<configIn, emailMaxRetries, emailMetrics, aiVars, probeVars>>

\* email-service.js:175-182 running after the timer has rejected the promise:
\* clearTimeout and resolve/reject have no effect; a resolved sendMail means
\* the transport accepted the message.
EmailLateResult(call, a, outcome) ==
  [call EXCEPT !.late = @ \ {a}, !.discarded = @ + 1,
               !.accepted = @ + (IF outcome.kind = "ok" THEN 1 ELSE 0)]

\* A sendMail whose timer fired first settles afterwards.
LateSendMailSettles(a, outcome) ==
  /\ a \in emailCall.late
  /\ EmailContinue(EmailLateResult(emailCall, a, outcome))
  /\ UNCHANGED <<configIn, emailMaxRetries, aiVars, probeVars>>

\* What a sendMail may settle with after its timer has fired.
LateSendOutcomes(a) ==
  {SendResolved(a, i) : i \in InfoInputs}
    \cup {SendRejected(a, e) : e \in LateFailureInputs}

\* ------------------------------------------------------------------ server

\* The routes of the application the client may call.
HealthRoute == "/api/health"
SummaryRoute == "/api/generate-summary"
EmailRoute == "/api/send-email"
UploadRoute == "/api/upload-transcript"
AdminCacheRoute == "/api/admin/cache"
MetricsRoute == "/api/metrics"
\* a path under /api/ that no route is registered for (ai-service.js:964)
UnknownRoute == "/api/unknown"
\* the paths of the two POST routes, requested with GET: no route matches
GetSummaryRoute == "GET /api/generate-summary"
GetEmailRoute == "GET /api/send-email"
\* a path outside /api/
OutsideRoute == "/nothing"
\* the requests that end in the 404 handler
UnmatchedRoutes == {UnknownRoute, GetSummaryRoute, GetEmailRoute, OutsideRoute}
\* the routes without a limiter of their own, /api/health apart
PlainRoutes == {UploadRoute, AdminCacheRoute, MetricsRoute} \cup UnmatchedRoutes
Routes == {HealthRoute, SummaryRoute, EmailRoute} \cup PlainRoutes

\* req.path of a request
Path(route) ==
  IF route = GetSummaryRoute THEN SummaryRoute
  ELSE IF route = GetEmailRoute THEN EmailRoute
  ELSE route

\* ai-service.js:424  app.use('/api/', apiLimiter): the general limiter sees
\* the requests whose path is under /api/
UnderApi(route) == route # OutsideRoute

\* ai-service.js:378-391  rateLimit({ windowMs: 15 * 60 * 1000, max: 100 })
apiLimiter == [windowMs |-> 15 * 60 * 1000, max |-> 100]

\* Faulty variant: the ceiling is one too high.
summarizeLimiter_Max6 == [windowMs |-> 2 * 60 * 1000, max |-> 6]

\* ai-service.js:393-406  rateLimit({ windowMs: 2 * 60 * 1000, max: 5 })
summarizeLimiter == [windowMs |-> 2 * 60 * 1000, max |-> 5]

\* ai-service.js:408-421  rateLimit({ windowMs: 60 * 60 * 1000, max: 20 })
emailLimiter == [windowMs |-> 60 * 60 * 1000, max |-> 20]

\* ai-service.js:431-434: the rate limits /api/health reports
EMAIL_RATE_LIMIT_WINDOW == 15 * 60 * 1000
EMAIL_RATE_LIMIT_MAX == 10

\* The limiters by name, and the ones a request to a route passes, in order
\* (ai-service.js:424, 538, 680).
Limiters == {"api", "summarize", "email"}
LimiterPolicy(l) ==
  IF l = "api" THEN apiLimiter
  ELSE IF l = "summarize" THEN summarizeLimiter
  ELSE emailLimiter
\* Faulty variant: the routes are registered without their own limiter.
RouteLimiter_None(route) == "none"
RouteLimiter(route) ==
  IF route = SummaryRoute THEN "summarize"
  ELSE IF route = EmailRoute THEN "email"
  ELSE "none"

\* A RateWindow {windowStart, count} of one client; none before the client's
\* first request.
NoWindow == [count |-> 0, windowStart |-> -1]

\* Fixed window: a window that is missing or over is replaced by an empty
\* one that starts now.
CurrentWindow(w, policy, t) ==
  IF w = NoWindow \/ t - w.windowStart >= policy.windowMs
    THEN [count |-> 0, windowStart |-> t]
    ELSE w

\* admit(routeId, clientKey): allowed while the window's count is under the
\* ceiling.
Allowed(w, policy, t) == CurrentWindow(w, policy, t).count < policy.max

\* The window after the admission decision: an allowed request is counted.
WindowAfter(w, policy, t) ==
  LET cur == CurrentWindow(w, policy, t)
  IN IF cur.count < policy.max THEN [cur EXCEPT !.count = @ + 1] ELSE cur

\* ai-service.js:450  const MAX_TIMES_STORED = 100
MAX_TIMES_STORED == 100

\* ai-service.js:437-449: the counters and the latency windows after startup
ServerMetrics ==
  [requestCount |-> 0, summaryRequestCount |-> 0, emailRequestCount |-> 0,
   errorCount |-> 0, rateLimitCount |-> 0,
   totalSummaryTime |-> 0, totalEmailTime |-> 0,
   lastSummaryTimes |-> <<>>, lastEmailTimes |-> <<>>]

\* Faulty variant: nothing is evicted.
PushTime_NoShift(times, time) == Append(times, time)

\* ai-service.js:460-463 / 467-470: push(time), then shift() when the array
\* has grown beyond MAX_TIMES_STORED
PushTime(times, time) ==
  LET pushed == Append(times, time)
  IN IF Len(pushed) > MAX_TIMES_STORED THEN Tail(pushed) ELSE pushed

\* ai-service.js:453-480: the responseTime callback, run when a response that
\* passed this middleware is written; time is the response time measured.
RecordResponse(m, path, statusCode, time) ==
  [m EXCEPT
     !.requestCount = @ + 1,
     !.summaryRequestCount = @ + (IF path = SummaryRoute THEN 1 ELSE 0),
     !.totalSummaryTime = @ + (IF path = SummaryRoute THEN time ELSE 0),
     !.lastSummaryTimes = IF path = SummaryRoute THEN PushTime(@, time) ELSE @,
     !.emailRequestCount = @ + (IF path = EmailRoute THEN 1 ELSE 0),
     !.totalEmailTime = @ + (IF path = EmailRoute THEN time ELSE 0),
     !.lastEmailTimes = IF path = EmailRoute THEN PushTime(@, time) ELSE @,
     !.errorCount = @ + (IF statusCode >= 400 THEN 1 ELSE 0),
     !.rateLimitCount = @ + (IF statusCode = 429 THEN 1 ELSE 0)]

\* The response time the middleware measures for the responses of the server.
ResponseTimeInputs == {12}

\* An HTTP request of the client and its response. pc: "none" before the
\* first request, "handling" while the route handler awaits the adapter,
\* "responded" after; status is the response's status code; deniedBy the
\* limiter whose handler answered, metered whether the request passed the
\* metrics middleware, adapter whether the handler called the adapter.
HttpReq(pc, route, status, deniedBy, metered, adapter) ==
  [pc |-> pc, route |-> route, status |-> status, deniedBy |-> deniedBy,
   metered |-> metered, adapter |-> adapter]
NoRequest == HttpReq("none", "none", 0, "none", FALSE, FALSE)

\* req.body of POST /api/generate-summary: the transcript by its length,
\* 0 when it is missing or empty.
TranscriptInputs == {0, 5, 2400, 100001}

\* ai-service.js:545-578: the checks before the adapter is called; 0 when the
\* request passes them.
SummaryRequestStatus(transcript, configured) ==
  IF transcript = 0 THEN 400
  ELSE IF transcript > 100000 THEN 400
  ELSE IF transcript < 10 THEN 400
  ELSE IF ~configured THEN 503
  ELSE 0

\* ai-service.js:602-608: the status code for an error of generateSummary
SummaryErrorStatus(error) ==
  IF Includes(error.message, <<"rate", "limit">>)
       \/ Includes(error.message, <<"quota">>) THEN 429
  ELSE IF Includes(error.message, TimedOutWords) THEN 504
  ELSE 500

\* The characters the class \s of a JavaScript regular expression matches:
\* tab, line feed, vertical tab, form feed, carriage return, space, no-break
\* space, the Unicode space separators, the line and paragraph separators
\* and the byte order mark. A character outside ASCII, and the vertical tab,
\* is written as its code point.
WhiteSpace ==
  {"\t", "\n", "U+000B", "\f", "\r", " ", "U+00A0", "U+1680",
   "U+2000", "U+2001", "U+2002", "U+2003", "U+2004", "U+2005", "U+2006",
   "U+2007", "U+2008", "U+2009", "U+200A", "U+2028", "U+2029", "U+202F",
   "U+205F", "U+3000", "U+FEFF"}

\* ai-service.js:724  /^[^\s@]+@[^\s@]+\.[^\s@]+$/.test(email)
EmailRegexTest(email) ==
  LET plain(i, j) ==
        i <= j /\ \A k \in i..j : email[k] \notin WhiteSpace \cup {"@"}
  IN \E at \in 1..Len(email), dot \in 1..Len(email) :
       /\ email[at] = "@" /\ email[dot] = "." /\ at < dot
       /\ plain(1, at - 1) /\ plain(at + 1, dot - 1)
       /\ plain(dot + 1, Len(email))

\* req.body of POST /api/send-email. recipients: kind "undefined", "array",
\* "string" or "other" with the addresses in list; subject and summary "" when
\* missing.
EmailBody(kind, list, subject, summary) ==
  [recipients |-> [kind |-> kind, list |-> list],
   subject |-> subject, summary |-> summary]
NoBody == EmailBody("undefined", <<>>, "", "")
EmailBodyInputs ==
  { EmailBody("array", <<AnnAddress>>, "Weekly sync", "# Notes"),
    EmailBody("string", <<AnnAddress>>, "Weekly sync", "# Notes"),
    EmailBody("array", <<AnnAddress, NoDotAddress>>, "Weekly sync", "# Notes"),
    EmailBody("array", <<TabAddress>>, "Weekly sync", "# Notes"),
    EmailBody("array", <<>>, "Weekly sync", "# Notes"),
    EmailBody("undefined", <<>>, "Weekly sync", "# Notes"),
    EmailBody("array", <<AnnAddress>>, "", "# Notes"),
    EmailBody("other", <<>>, "Weekly sync", "# Notes") }

\* ai-service.js:687-732: the checks before the adapter is called; 0 when the
\* request passes them.
EmailRequestStatus(body, configured) ==
  IF body.recipients.kind = "undefined"
       \/ (body.recipients.kind = "string" /\ body.recipients.list = <<>>)
       \/ Falsy(body.subject) \/ Falsy(body.summary) THEN 400
  ELSE IF ~configured THEN 503
  ELSE IF body.recipients.kind \notin {"array", "string"} THEN 400
  ELSE IF \E i \in 1..Len(body.recipients.list) :
            ~EmailRegexTest(body.recipients.list[i]) THEN 400
  ELSE 0

\* ai-service.js:762-769: the status code for an error of sendSummaryEmail
EmailErrorStatus(error) ==
  IF Includes(error.message, <<"connection", "refused">>)
       \/ Includes(error.message, <<"no", "server", "found">>) THEN 503
  ELSE IF Includes(error.message, TimedOutWords) THEN 504
  ELSE IF Includes(error.message, <<"rate", "limit">>) THEN 429
  ELSE 500

\* The response is written: the metrics callback runs for a request that
\* passed the metrics middleware, with the path of the request.
Respond(route, status, deniedBy, metered, adapter) ==
  /\ httpReq' = HttpReq("responded", route, status, deniedBy, metered, adapter)
  /\ \E time \in ResponseTimeInputs :
       serverMetrics' = IF metered
                          THEN RecordResponse(serverMetrics, Path(route),
                                              status, time)
                          ELSE serverMetrics
  /\ denials' = denials + (IF deniedBy # "none" THEN 1 ELSE 0)

\* The route handler is suspended at its await; adapter: of a call of an
\* adapter.
Await(route, adapter) ==
  /\ httpReq' = HttpReq("handling", route, 0, "none", TRUE, adapter)
  /\ UNCHANGED <<serverMetrics, denials>>

\* A route handler is suspended at its await: of an adapter's call
\* (ai-service.js:581, 735) or of the text of an uploaded file (637).
Awaiting ==
  \/ \E c \in DOMAIN aiCalls : aiCalls[c].pc \notin {"idle", "done"}
  \/ emailCall.pc \notin {"idle", "done"}
  \/ uploads # <<>>

\* Faulty variant: the limiter's handler answers 429 and passes the request on, so
\* the route handler calls the adapter.
LimitExceeded_CallsNext(route, l, metered) ==
  /\ Respond(route, 429, l, metered, FALSE)
  /\ aiMetrics' = [aiMetrics EXCEPT !.requestCount = @ + 1]
  /\ emailMetrics' = [emailMetrics EXCEPT !.emailsFailed = @ + 1]
  /\ UNCHANGED <<aiCalls, emailCall, served, uploads>>

\* ai-service.js:383-390, 398-405, 413-420: the handler of a limiter that
\* denies: it answers 429 and does not call next().
LimitExceeded(route, l, metered) ==
  /\ Respond(route, 429, l, metered, FALSE)
  /\ UNCHANGED <<aiMetrics, aiCalls, emailMetrics, emailCall, served, uploads>>

\* ai-service.js:581-615: POST /api/generate-summary after a turn of the
\* generateSummary call in slot c that it awaits: the response once the call
\* has settled, nothing while it has not.
SummaryResponse(c) ==
  IF aiCalls'[c].pc = "done"
    THEN Respond(SummaryRoute,
                 IF aiCalls'[c].result.kind = "ok" THEN 200
                 ELSE SummaryErrorStatus(aiCalls'[c].result.error),
                 "none", TRUE, TRUE)
    ELSE UNCHANGED <<httpReq, serverMetrics, denials>>

\* ai-service.js:735-776: POST /api/send-email after a turn of the
\* sendSummaryEmail call that it awaits.
EmailResponse ==
  IF emailCall'.pc = "done"
    THEN Respond(EmailRoute,
                 IF emailCall'.result.kind = "ok" THEN 200
                 ELSE EmailErrorStatus(emailCall'.result.error),
                 "none", TRUE, TRUE)
    ELSE UNCHANGED <<httpReq, serverMetrics, denials>>

\* ai-service.js:538-581: the handler of POST /api/generate-summary up to its
\* await.
PostGenerateSummary(transcript) ==
  LET bad == SummaryRequestStatus(transcript, env.ai)
  IN IF bad # 0
       THEN /\ Respond(SummaryRoute, bad, "none", TRUE, FALSE)
            /\ UNCHANGED <<aiMetrics, aiCalls, emailMetrics, emailCall, served, uploads>>
       ELSE /\ \E c \in AICalls :
                 /\ aiCalls[c].pc \in {"idle", "done"}
                 /\ served < MaxServed
                 /\ served' = served + 1
                 /\ GenerateSummaryCall(c)
                 /\ IF aiCalls'[c].pc = "done"
                      THEN SummaryResponse(c)
                      ELSE Await(SummaryRoute, TRUE)
            /\ UNCHANGED <<emailMetrics, emailCall, uploads>>

\* ai-service.js:680-735: the handler of POST /api/send-email up to its await.
PostSendEmail(body) ==
  LET bad == EmailRequestStatus(body, env.email)
  IN IF bad # 0
       THEN /\ Respond(EmailRoute, bad, "none", TRUE, FALSE)
            /\ UNCHANGED <<aiMetrics, aiCalls, emailMetrics, emailCall, served, uploads>>
       ELSE /\ emailCall.pc \in {"idle", "done"}
            /\ served < MaxServed
            /\ served' = served + 1
            /\ SendSummaryEmailCall(EmailData(body.recipients.list, body.summary))
            /\ IF emailCall'.pc = "done"
                 THEN EmailResponse
                 ELSE Await(EmailRoute, TRUE)
            /\ UNCHANGED <<aiMetrics, aiCalls, uploads>>

\* ai-service.js:783-841: GET /api/health
GetHealth ==
  /\ Respond(HealthRoute, 200, "none", TRUE, FALSE)
  /\ UNCHANGED <<aiMetrics, aiCalls, emailMetrics, emailCall, served, uploads>>

\* What a request to a route without a limiter of its own carries. file:
\* the multipart file of an upload: "none", "text" (accepted and read),
\* "unreadable" (accepted, extractTextFromFile rejects) or "rejected" (multer
\* refuses its type or size); authorized: the Authorization header is the
\* bearer key the route expects; action: req.body.action.
Detail(file, authorized, action) ==
  [file |-> file, authorized |-> authorized, action |-> action]
NoDetail == Detail("none", FALSE, "")
UploadInputs ==
  { Detail(f, FALSE, "") : f \in {"none", "text", "unreadable", "rejected"} }
AdminCacheInputs ==
  { Detail("none", FALSE, "clear") }
    \cup { Detail("none", TRUE, a) : a \in {"clear", "stats", ""} }
MetricsInputs == { Detail("none", a, "") : a \in BOOLEAN }

\* ai-service.js:358-370, 622-674, 974-1002: the status POST
\* /api/upload-transcript answers with. An error of multer goes to the error
\* handler, which answers err.statusCode || 500.
UploadStatus(file) ==
  IF file = "rejected" THEN 500
  ELSE IF file = "none" THEN 400
  ELSE IF file = "text" THEN 200
  ELSE 400

\* The files multer accepts: the handler awaits extractTextFromFile for
\* them (ai-service.js:637).
AcceptedFiles == {"text", "unreadable"}

\* ai-service.js:622-637: POST /api/upload-transcript up to its await. A
\* request without a file, or with one multer refuses, is answered at once.
PostUploadTranscript(detail) ==
  /\ IF detail.file \in AcceptedFiles
       THEN /\ uploads' = Append(uploads, detail.file)
            /\ Await(UploadRoute, FALSE)
       ELSE /\ Respond(UploadRoute, UploadStatus(detail.file),
                       "none", TRUE, FALSE)
            /\ UNCHANGED uploads
  /\ UNCHANGED <<aiMetrics, aiCalls, emailMetrics, emailCall, served>>

\* ai-service.js:637-674, file-processing.js:22-87: extractTextFromFile of
\* the i-th upload under way settles, in a later turn than the one the
\* request arrived in, and its handler answers.
UploadResponse(i) ==
  /\ i \in 1..Len(uploads)
  /\ uploads' = SubSeq(uploads, 1, i - 1) \o SubSeq(uploads, i + 1, Len(uploads))
  /\ Respond(UploadRoute, UploadStatus(uploads[i]), "none", TRUE, FALSE)
  /\ UNCHANGED <<configIn, aiVars, emailVars, probeVars, now, env, client,
                 rateWindows, served, overlaps, cacheVars>>

\* ai-service.js:894-945: GET /api/metrics. With the key, the handler calls
\* process.eventLoopUtilization (908), which process does not have: the
\* TypeError goes to the error handler (974-1002), which answers
\* err.statusCode || 500.
GetMetrics(detail) ==
  /\ Respond(MetricsRoute, IF detail.authorized THEN 500 ELSE 401,
             "none", TRUE, FALSE)
  /\ UNCHANGED <<aiMetrics, aiCalls, emailMetrics, emailCall, served, uploads>>

\* ai-service.js:964-971: the handler of the requests no route matches
NotFoundHandler(route) ==
  /\ Respond(route, 404, "none", TRUE, FALSE)
  /\ UNCHANGED <<aiMetrics, aiCalls, emailMetrics, emailCall, served, uploads>>

\* Times at which the requests of a client of the route arrive: the start
\* and the end of a window of the limiter that the route adds to the chain
\* and, but for the hour of the email limiter, its last millisecond.
TimeInputs(route) ==
  LET windowMs == IF RouteLimiter(route) = "none" THEN apiLimiter.windowMs
                  ELSE LimiterPolicy(RouteLimiter(route)).windowMs
  IN IF route = EmailRoute THEN {0, windowMs}
     ELSE {0, windowMs - 1, windowMs}

\* Time passes.
Tick(t) ==
  /\ t > now
  /\ now' = t
  /\ UNCHANGED <<configIn, aiVars, emailVars, probeVars, trafficVars, cacheVars>>

\* What a turn of the adapter leaves alone while a route handler awaits it.
ServerFrame ==
  UNCHANGED <<now, env, client, rateWindows, served, overlaps, uploads,
              cacheVars>>

\* The server after startup, no request received yet.
ServerStarted ==
  /\ now = 0
  /\ rateWindows = [l \in Limiters |-> NoWindow]
  /\ serverMetrics = ServerMetrics
  /\ httpReq = NoRequest
  /\ denials = 0
  /\ served = 0
  /\ overlaps = 0
  /\ uploads = <<>>

\* ------------------------------------------------------------------- cache

\* A JSON value handed to res.json: its type and its text.
Json(t, v) == [t |-> t, v |-> v]
JsonNull == Json("null", "null")

\* ToBoolean of a JSON value
Truthy(j) ==
  ~ \/ j.t = "null"
    \/ (j.t = "number" /\ j.v = "0")
    \/ (j.t = "string" /\ j.v = "")
    \/ (j.t = "boolean" /\ j.v = "false")

\* cache.js:68-72  { isError: true, status: res.statusCode, body: body }: a
\* JSON object of which the middleware reads the properties isError, status
\* and body. A body the handler answers with may be such an object too.
ErrorObject(status, body) ==
  [t |-> "object", v |-> "{isError,status,body}",
   isError |-> Json("boolean", "true"), status |-> status, body |-> body]

\* cache.js:42  cachedBody.isError (undefined for a value without the
\* property)
IsError(j) == "isError" \in DOMAIN j /\ Truthy(j.isError)

\* A CacheEntry {value, storedAt, ttlMs}: value is what mcache.put was given,
\* the body itself or the object of cache.js:68-72; from is the status code
\* of the response the value was taken from.
CacheEntry(value, storedAt, ttlMs, from) ==
  [value |-> value, storedAt |-> storedAt, ttlMs |-> ttlMs, from |-> from]
NoEntry == CacheEntry(JsonNull, -1, 0, 0)

\* mcache.get(key) at time t: the entry, unless now - storedAt >= ttlMs.
mcacheGet(store, key, t) ==
  IF store[key] # NoEntry /\ t - store[key].storedAt < store[key].ttlMs
    THEN store[key]
    ELSE NoEntry

\* mcache.put(key, value, ttlMs) at time t
mcachePut(store, key, value, ttlMs, t, from) ==
  [store EXCEPT ![key] = CacheEntry(value, t, ttlMs, from)]

\* mcache.del(key)
mcacheDel(store, key) == [store EXCEPT ![key] = NoEntry]

\* mcache.clear()
mcacheClear(store) == [k \in DOMAIN store |-> NoEntry]

\* cache(duration, keyGenerator): the duration, in seconds, the middleware
\* was created with (cache.js:19).
CacheDuration == 60

\* cache.js:27-29  `__express__${req.originalUrl || req.url}`
CacheKeys == {"__express__/api/a", "__express__/api/b"}

\* The request the middleware sees: req.method, the key of its URL,
\* req.skipCache, req.cacheEvenErrors.
CacheReq(method, key, skipCache, cacheEvenErrors) ==
  [method |-> method, key |-> key, skipCache |-> skipCache,
   cacheEvenErrors |-> cacheEvenErrors]
CacheReqInputs ==
  { CacheReq("GET", k, FALSE, e) : k \in CacheKeys, e \in BOOLEAN }
    \cup { CacheReq("GET", "__express__/api/a", TRUE, FALSE),
           CacheReq("POST", "__express__/api/a", FALSE, FALSE) }

\* What the downstream handler answers: res.status(status).json(body).
HandlerResponse(status, body) == [status |-> status, body |-> body]
HandlerResponseInputs ==
  { HandlerResponse(200, Json("object", "{\"status\":\"ok\"}")),
    HandlerResponse(200, Json("number", "0")),
    HandlerResponse(200, ErrorObject(503, Json("string", "x"))),
    HandlerResponse(302, Json("object", "{\"status\":\"ok\"}")),
    HandlerResponse(404, Json("object", "{\"error\":\"Not found\"}")) }

\* cache.js:34  if (cachedBody), cachedBody being what mcache.get returned
\* (null for NoEntry)
CachedBodyTruthy(entry) ==
  entry # NoEntry /\ Truthy(entry.value)

\* Faulty variant: every completed response is taken for cacheable.
ShouldCache_NoUpperBound(statusCode) == statusCode >= 200

\* cache.js:58  res.statusCode >= 200 && res.statusCode < 400
ShouldCache(statusCode) == statusCode >= 200 /\ statusCode < 400

\* What an operation on the cache did. op: "none", "lookup" (the middleware
\* ran for req at time at), "respond" (the handler of req answered),
\* "invalidate", "clear". found: the store's entry of the key when the
\* middleware ran; xcache: the X-Cache header; next: next() was called;
\* status, body: the response written; stored: mcache.put was called.
CacheOp(op, req, at, found, xcache, next, response, stored) ==
  [op |-> op, req |-> req, at |-> at, found |-> found, xcache |-> xcache,
   next |-> next, response |-> response, stored |-> stored]
NoCacheReq == CacheReq("none", "none", FALSE, FALSE)
NoResponseYet == HandlerResponse(0, JsonNull)
NoCacheOp ==
  CacheOp("none", NoCacheReq, 0, NoEntry, "none", FALSE, NoResponseYet, FALSE)

\* A request passed on with next(): the request and whether res.json was
\* replaced by the caching one (cache.js:54-78).
Pending(req, intercepted) == [req |-> req, intercepted |-> intercepted]

\* q without its i-th element
RemoveAt(q, i) == SubSeq(q, 1, i - 1) \o SubSeq(q, i + 1, Len(q))

CacheFrame == UNCHANGED <<configIn, aiVars, emailVars, probeVars, now, trafficVars>>

\* Faulty variant: a miss for a key whose response is being computed waits for
\* that response and does not call next().
CacheMiddleware_Coalesced(req) ==
  /\ lookups < MaxLookups
  /\ lookups' = lookups + 1
  /\ LET found == mcache[req.key]
         cachedBody == mcacheGet(mcache, req.key, now)
         computing == \E i \in 1..Len(pending) :
                         pending[i].intercepted /\ pending[i].req.key = req.key
     IN IF req.method # "GET" \/ req.skipCache
          THEN /\ Len(pending) < MaxPending
               /\ pending' = Append(pending, Pending(req, FALSE))
               /\ cacheLast' = CacheOp("lookup", req, now, found, "none", TRUE,
                                       NoResponseYet, FALSE)
        ELSE IF CachedBodyTruthy(cachedBody)
          THEN /\ pending' = pending
               /\ cacheLast' =
                    CacheOp("lookup", req, now, found, "HIT", FALSE,
                            IF IsError(cachedBody.value)
                              THEN HandlerResponse(cachedBody.value.status,
                                                   cachedBody.value.body)
                              ELSE HandlerResponse(200, cachedBody.value),
                            FALSE)
        ELSE IF computing
          THEN /\ pending' = pending
               /\ cacheLast' = CacheOp("lookup", req, now, found, "MISS", FALSE,
                                       NoResponseYet, FALSE)
        ELSE /\ Len(pending) < MaxPending
             /\ pending' = Append(pending, Pending(req, TRUE))
             /\ cacheLast' = CacheOp("lookup", req, now, found, "MISS", TRUE,
                                     NoResponseYet, FALSE)
  /\ UNCHANGED mcache
  /\ CacheFrame

\* cache.js:20-81: the middleware runs for a request. A hit is answered from
\* the store; otherwise the request is passed on to the downstream handler.
CacheMiddleware(req) ==
  /\ lookups < MaxLookups
  /\ lookups' = lookups + 1
  /\ LET found == mcache[req.key]
         cachedBody == mcacheGet(mcache, req.key, now)
     IN IF req.method # "GET" \/ req.skipCache
          THEN /\ Len(pending) < MaxPending
               /\ pending' = Append(pending, Pending(req, FALSE))
               /\ cacheLast' = CacheOp("lookup", req, now, found, "none", TRUE,
                                       NoResponseYet, FALSE)
        ELSE IF CachedBodyTruthy(cachedBody)
          THEN /\ pending' = pending
               /\ cacheLast' =
                    CacheOp("lookup", req, now, found, "HIT", FALSE,
                            IF IsError(cachedBody.value)
                              THEN HandlerResponse(cachedBody.value.status,
                                                   cachedBody.value.body)
                              ELSE HandlerResponse(200, cachedBody.value),
                            FALSE)
        ELSE /\ Len(pending) < MaxPending
             /\ pending' = Append(pending, Pending(req, TRUE))
             /\ cacheLast' = CacheOp("lookup", req, now, found, "MISS", TRUE,
                                     NoResponseYet, FALSE)
  /\ UNCHANGED mcache
  /\ CacheFrame

\* cache.js:56-78: the downstream handler of the i-th pending request answers
\* with res.status(status).json(body); the replaced res.json stores what is
\* to be cached and sends the response.
HandlerResponds(i, response) ==
  /\ i \in 1..Len(pending)
  /\ LET req == pending[i].req
         shouldCache == ShouldCache(response.status)
         plain == pending[i].intercepted /\ shouldCache
         error == pending[i].intercepted /\ ~shouldCache /\ req.cacheEvenErrors
     IN /\ mcache' =
             IF plain
               THEN mcachePut(mcache, req.key, response.body,
                              CacheDuration * 1000, now, response.status)
             ELSE IF error
               THEN mcachePut(mcache, req.key,
                              ErrorObject(response.status, response.body),
                              CacheDuration * 1000, now, response.status)
             ELSE mcache
        /\ cacheLast' = CacheOp("respond", req, now, mcache[req.key],
                                IF pending[i].intercepted THEN "MISS" ELSE "none",
                                FALSE, response, plain \/ error)
  /\ pending' = RemoveAt(pending, i)
  /\ UNCHANGED lookups
  /\ CacheFrame

\* Faulty variant: the whole store is emptied.
invalidateCache_All(key) ==
  /\ mcache' = mcacheClear(mcache)
  /\ cacheLast' = CacheOp("invalidate", CacheReq("none", key, FALSE, FALSE), now,
                          mcache[key], "none", FALSE, NoResponseYet, FALSE)
  /\ UNCHANGED <<pending, lookups>>
  /\ CacheFrame

\* cache.js:88-91  invalidateCache(key)
invalidateCache(key) ==
  /\ mcache' = mcacheDel(mcache, key)
  /\ cacheLast' = CacheOp("invalidate", CacheReq("none", key, FALSE, FALSE), now,
                          mcache[key], "none", FALSE, NoResponseYet, FALSE)
  /\ UNCHANGED <<pending, lookups>>
  /\ CacheFrame

\* cache.js:96-99  clearCache(): what it does to the cache
ClearCacheCall ==
  /\ mcache' = mcacheClear(mcache)
  /\ cacheLast' = CacheOp("clear", NoCacheReq, now, NoEntry, "none", FALSE,
                          NoResponseYet, FALSE)
  /\ UNCHANGED <<pending, lookups>>

\* clearCache() called by a holder of the module
clearCache ==
  /\ ClearCacheCall
  /\ CacheFrame

\* ai-service.js:857-888: POST /api/admin/cache (the imported cache function
\* is never missing, so the 404 of line 868 is not answered)
PostAdminCache(detail) ==
  /\ IF ~detail.authorized
       THEN /\ Respond(AdminCacheRoute, 401, "none", TRUE, FALSE)
            /\ UNCHANGED cacheVars
     ELSE IF detail.action = "clear"
       THEN /\ ClearCacheCall
            /\ Respond(AdminCacheRoute, 200, "none", TRUE, FALSE)
     ELSE IF detail.action = "stats"
       THEN /\ Respond(AdminCacheRoute, 200, "none", TRUE, FALSE)
            /\ UNCHANGED cacheVars
     ELSE /\ Respond(AdminCacheRoute, 400, "none", TRUE, FALSE)
          /\ UNCHANGED cacheVars
  /\ UNCHANGED <<aiMetrics, aiCalls, emailMetrics, emailCall, served, uploads>>

\* A request of the client arrives and runs through the middleware chain
\* (ai-service.js:424 apiLimiter for a path under /api/, 453 metrics, then
\* the route with its own limiter) up to the response or to the handler's
\* await. A limiter that denies answers 429 itself and the chain stops
\* there. The request may arrive while the handler of an earlier one is
\* suspended at its await.
Request(route, transcript, body, detail) ==
  /\ route = client
  /\ Awaiting => overlaps < MaxOverlap
  /\ overlaps' = overlaps + (IF Awaiting THEN 1 ELSE 0)
  /\ denials < MaxDenied
  /\ route \in PlainRoutes =>
       serverMetrics.requestCount + Len(uploads) < MaxPlain
  /\ LET apiOk   == ~UnderApi(route)
                      \/ Allowed(rateWindows["api"], apiLimiter, now)
         rl      == RouteLimiter(route)
         routeOk == rl = "none"
                      \/ Allowed(rateWindows[rl], LimiterPolicy(rl), now)
     IN /\ rateWindows' =
             [l \in Limiters |->
                IF (l = "api" /\ UnderApi(route)) \/ (apiOk /\ l = rl)
                  THEN WindowAfter(rateWindows[l], LimiterPolicy(l), now)
                  ELSE rateWindows[l]]
        /\ IF ~apiOk
             THEN LimitExceeded(route, "api", FALSE) /\ UNCHANGED cacheVars
           ELSE IF ~routeOk
             THEN LimitExceeded(route, rl, TRUE) /\ UNCHANGED cacheVars
           ELSE IF route = SummaryRoute
             THEN PostGenerateSummary(transcript) /\ UNCHANGED cacheVars
           ELSE IF route = EmailRoute
             THEN PostSendEmail(body) /\ UNCHANGED cacheVars
           ELSE IF route = HealthRoute
             THEN GetHealth /\ UNCHANGED cacheVars
           ELSE IF route = UploadRoute
             THEN PostUploadTranscript(detail) /\ UNCHANGED cacheVars
           ELSE IF route = MetricsRoute
             THEN GetMetrics(detail) /\ UNCHANGED cacheVars
           ELSE IF route = AdminCacheRoute
             THEN PostAdminCache(detail)
           ELSE NotFoundHandler(route) /\ UNCHANGED cacheVars
  /\ UNCHANGED <<configIn, aiConfig, emailMaxRetries, probeVars, now, env, client>>

\* Times at which the cache is used: the start, and the last millisecond and
\* the end of the cache duration.
CacheTimeInputs == {0, CacheDuration * 1000 - 1, CacheDuration * 1000}

\* The cache module loaded, nothing stored.
CacheLoaded ==
  /\ mcache = [k \in CacheKeys |-> NoEntry]
  /\ pending = <<>>
  /\ cacheLast = NoCacheOp
  /\ lookups = 0

\* ------------------------------------------------------------ specification

\* Both services constructed, no call made yet. The calls of a behaviour go
\* to one service; the other one is constructed with its defaults.
Init ==
  /\ configIn \in { cfg \in [ai : MaxRetriesInputs, email : MaxRetriesInputs] :
                      cfg.ai = <<>> \/ cfg.email = <<>> }
  /\ aiConfig = AIServiceConfig(configIn.ai)
  /\ aiMetrics = AIServiceMetrics
  /\ aiCalls = [c \in AICalls |-> IdleAICall]
  /\ emailMaxRetries = EmailServiceMaxRetries(configIn.email)
  /\ emailMetrics = EmailServiceMetrics
  /\ emailCall = IdleEmailCall
  /\ probe = NoError
  /\ verdict = [done |-> FALSE, ai |-> FALSE, email |-> FALSE]
  /\ env = [ai |-> TRUE, email |-> TRUE]
  /\ client = "none"
  /\ ServerStarted
  /\ CacheLoaded

\* The two services share no state, so a behaviour of the pair is an
\* interleaving of a behaviour of each; the calls of one behaviour go to one
\* of the two services.
AIQuiet == \A c \in AICalls : aiCalls[c].pc = "idle"
EmailQuiet == emailCall.pc = "idle"

\* A caller asks for a summary.
SummaryRequest(c) == EmailQuiet /\ GenerateSummary(c) /\ UNCHANGED hostVars

\* A caller asks for an email.
EmailRequest(data) == AIQuiet /\ SendSummaryEmail(data) /\ UNCHANGED hostVars

\* The adapters' turns when a caller holds the services directly.
Next ==
  \/ \E c \in AICalls : SummaryRequest(c)
  \/ \E c \in AICalls, r \in ResponseInputs, d \in DurationInputs :
       RequestResolves(c, r, d) /\ UNCHANGED hostVars
  \/ \E c \in AICalls, e \in FailureInputs, d \in DurationInputs :
       RequestRejects(c, e, d) /\ UNCHANGED hostVars
  \/ \E c \in AICalls : RequestTimesOut(c) /\ UNCHANGED hostVars
  \/ \E c \in AICalls : BackoffElapses(c) /\ UNCHANGED hostVars
  \/ \E c \in AICalls : \E a \in aiCalls[c].late : \E o \in LateOutcomes(a) :
       LateRequestSettles(c, a, o) /\ UNCHANGED hostVars
  \/ \E data \in EmailDataInputs : EmailRequest(data)
  \/ \E i \in InfoInputs, d \in DurationInputs :
       SendMailResolves(i, d) /\ UNCHANGED hostVars
  \/ \E e \in FailureInputs, d \in DurationInputs :
       SendMailRejects(e, d) /\ UNCHANGED hostVars
  \/ SendTimesOut /\ UNCHANGED hostVars
  \/ EmailBackoffElapses /\ UNCHANGED hostVars
  \/ \E a \in emailCall.late : \E o \in LateSendOutcomes(a) :
       LateSendMailSettles(a, o) /\ UNCHANGED hostVars

Spec == Init /\ [][Next]_vars

\* The classifiers applied to one error, outside any call.
Classify ==
  /\ ~verdict.done
  /\ verdict' = [done |-> TRUE, ai |-> _isRetryableError(probe),
                 email |-> _isRetryableEmailError(probe)]
  /\ UNCHANGED <<configIn, aiVars, emailVars, probe, hostVars>>

InitClassify ==
  /\ configIn = [ai |-> <<>>, email |-> <<>>]
  /\ aiConfig = AIServiceConfig(configIn.ai)
  /\ aiMetrics = AIServiceMetrics
  /\ aiCalls = [c \in AICalls |-> IdleAICall]
  /\ emailMaxRetries = EmailServiceMaxRetries(configIn.email)
  /\ emailMetrics = EmailServiceMetrics
  /\ emailCall = IdleEmailCall
  /\ probe \in ErrorInputs
  /\ verdict = [done |-> FALSE, ai |-> FALSE, email |-> FALSE]
  /\ env = [ai |-> TRUE, email |-> TRUE]
  /\ client = "none"
  /\ ServerStarted
  /\ CacheLoaded

NextClassify == Classify

SpecClassify == InitClassify /\ [][NextClassify]_vars

\* What the provider and the transport answer to the calls the server makes.
ServerResponseInputs == { Resp("# Summary A", 120), Resp("", 35) }
ServerFailureInputs == { ServiceUnavailable, AuthFailed }

\* The server started with its environment, one client calling one route.
InitServer ==
  /\ configIn = [ai |-> <<>>, email |-> <<>>]
  /\ aiConfig = AIServiceConfig(configIn.ai)
  /\ aiMetrics = AIServiceMetrics
  /\ aiCalls = [c \in AICalls |-> IdleAICall]
  /\ emailMaxRetries = EmailServiceMaxRetries(configIn.email)
  /\ emailMetrics = EmailServiceMetrics
  /\ emailCall = IdleEmailCall
  /\ probe = NoError
  /\ verdict = [done |-> FALSE, ai |-> FALSE, email |-> FALSE]
  /\ env \in {[ai |-> TRUE, email |-> TRUE], [ai |-> FALSE, email |-> FALSE]}
  /\ client \in Routes
  /\ ServerStarted
  /\ CacheLoaded

\* The adapter's turns are each followed by the continuation of the route
\* handler that awaits the call. An operation whose timer fired first stays
\* outstanding while the server runs.
NextServer ==
  \/ Request(HealthRoute, 0, NoBody, NoDetail)
  \/ \E t \in TranscriptInputs : Request(SummaryRoute, t, NoBody, NoDetail)
  \/ \E b \in EmailBodyInputs : Request(EmailRoute, 0, b, NoDetail)
  \/ \E u \in UploadInputs : Request(UploadRoute, 0, NoBody, u)
  \/ \E a \in AdminCacheInputs : Request(AdminCacheRoute, 0, NoBody, a)
  \/ \E m \in MetricsInputs : Request(MetricsRoute, 0, NoBody, m)
  \/ \E r \in UnmatchedRoutes : Request(r, 0, NoBody, NoDetail)
  \/ \E i \in 1..Len(uploads) : UploadResponse(i)
  \/ \E t \in TimeInputs(client) : Tick(t)
  \/ \E c \in AICalls, r \in ServerResponseInputs, d \in DurationInputs :
       RequestResolves(c, r, d) /\ SummaryResponse(c) /\ ServerFrame
  \/ \E c \in AICalls, e \in ServerFailureInputs, d \in DurationInputs :
       RequestRejects(c, e, d) /\ SummaryResponse(c) /\ ServerFrame
  \/ \E c \in AICalls : RequestTimesOut(c) /\ SummaryResponse(c) /\ ServerFrame
  \/ \E c \in AICalls : BackoffElapses(c) /\ UNCHANGED hostVars
  \/ \E i \in InfoInputs, d \in DurationInputs :
       SendMailResolves(i, d) /\ EmailResponse /\ ServerFrame
  \/ \E e \in ServerFailureInputs, d \in DurationInputs :
       SendMailRejects(e, d) /\ EmailResponse /\ ServerFrame
  \/ SendTimesOut /\ EmailResponse /\ ServerFrame
  \/ EmailBackoffElapses /\ UNCHANGED hostVars

SpecServer == InitServer /\ [][NextServer]_vars

\* The number of GET /api/health requests the address has made in the
\* current window of the general limiter before it turns to the route with
\* its own limiter: one less than what leaves room for the route's ceiling.
HealthRequestsBefore ==
  apiLimiter.max - LimiterPolicy(RouteLimiter(client)).max - 1

\* The server as those health requests leave it (Request of HealthRoute,
\* HealthRequestsBefore times at time 0): each is counted by the general
\* limiter and by the metrics middleware, none by a route limiter.
AfterHealthRequests ==
  /\ now = 0
  /\ rateWindows = [l \in Limiters |->
                      IF l = "api"
                        THEN [count |-> HealthRequestsBefore, windowStart |-> 0]
                        ELSE NoWindow]
  /\ serverMetrics = [ServerMetrics EXCEPT !.requestCount = HealthRequestsBefore]
  /\ httpReq = HttpReq("responded", HealthRoute, 200, "none", TRUE, FALSE)
  /\ denials = 0
  /\ served = 0
  /\ overlaps = 0
  /\ uploads = <<>>

\* The middleware chain under a client whose requests approach the ceiling
\* of both limiters of its route.
InitChain ==
  /\ configIn = [ai |-> <<>>, email |-> <<>>]
  /\ aiConfig = AIServiceConfig(configIn.ai)
  /\ aiMetrics = AIServiceMetrics
  /\ aiCalls = [c \in AICalls |-> IdleAICall]
  /\ emailMaxRetries = EmailServiceMaxRetries(configIn.email)
  /\ emailMetrics = EmailServiceMetrics
  /\ emailCall = IdleEmailCall
  /\ probe = NoError
  /\ verdict = [done |-> FALSE, ai |-> FALSE, email |-> FALSE]
  /\ env = [ai |-> TRUE, email |-> TRUE]
  /\ client \in {SummaryRoute, EmailRoute}
  /\ AfterHealthRequests
  /\ CacheLoaded

NextChain ==
  \/ \E t \in TranscriptInputs : Request(SummaryRoute, t, NoBody, NoDetail)
  \/ \E b \in EmailBodyInputs : Request(EmailRoute, 0, b, NoDetail)
  \/ \E t \in TimeInputs(client) : Tick(t)
  \/ \E c \in AICalls, r \in ServerResponseInputs, d \in DurationInputs :
       RequestResolves(c, r, d) /\ SummaryResponse(c) /\ ServerFrame
  \/ \E c \in AICalls, e \in ServerFailureInputs, d \in DurationInputs :
       RequestRejects(c, e, d) /\ SummaryResponse(c) /\ ServerFrame
  \/ \E c \in AICalls : RequestTimesOut(c) /\ SummaryResponse(c) /\ ServerFrame
  \/ \E c \in AICalls : BackoffElapses(c) /\ UNCHANGED hostVars
  \/ \E i \in InfoInputs, d \in DurationInputs :
       SendMailResolves(i, d) /\ EmailResponse /\ ServerFrame
  \/ \E e \in ServerFailureInputs, d \in DurationInputs :
       SendMailRejects(e, d) /\ EmailResponse /\ ServerFrame
  \/ SendTimesOut /\ EmailResponse /\ ServerFrame
  \/ EmailBackoffElapses /\ UNCHANGED hostVars

SpecChain == InitChain /\ [][NextChain]_vars

\* The cache middleware in front of a downstream handler, and the two
\* operations that remove entries.
InitCache ==
  /\ configIn = [ai |-> <<>>, email |-> <<>>]
  /\ aiConfig = AIServiceConfig(configIn.ai)
  /\ aiMetrics = AIServiceMetrics
  /\ aiCalls = [c \in AICalls |-> IdleAICall]
  /\ emailMaxRetries = EmailServiceMaxRetries(configIn.email)
  /\ emailMetrics = EmailServiceMetrics
  /\ emailCall = IdleEmailCall
  /\ probe = NoError
  /\ verdict = [done |-> FALSE, ai |-> FALSE, email |-> FALSE]
  /\ env = [ai |-> TRUE, email |-> TRUE]
  /\ client = "none"
  /\ ServerStarted
  /\ CacheLoaded

NextCache ==
  \/ \E req \in CacheReqInputs : CacheMiddleware(req)
  \/ \E i \in 1..Len(pending), r \in HandlerResponseInputs : HandlerResponds(i, r)
  \/ \E k \in CacheKeys : invalidateCache(k)
  \/ clearCache
  \/ \E t \in CacheTimeInputs : Tick(t)

SpecCache == InitCache /\ [][NextCache]_vars

\* Errors that the retry loop of an adapter may end with, or that
\* generateSummary throws itself for an empty completion: provider messages
\* with and without the words the routes look for, with codes and statuses.
CatchMessageInputs ==
  { <<"Rate", "limit", "reached">>, <<"rate", "limit", "exceeded">>,
    <<"quota", "exceeded">>, <<"connect", "ECONNREFUSED">>,
    <<"connection", "refused">>, <<"Service", "Unavailable">>,
    <<"Request", "timed", "out">> }
CatchInputs ==
  { Err(m, c, s) : m \in CatchMessageInputs,
                   c \in {"", "ECONNREFUSED", "EAUTH"},
                   s \in {0, 400, 401, 404, 429, 500, 503} }
    \cup {EmptyResponseError, AITimeoutError, EmailTimeoutError}

\* ai-service.js:104-109, 598-615: generateSummary fails with the error
\* probe; the catch block of POST /api/generate-summary answers.
GenerateSummaryCatch ==
  /\ httpReq.pc = "none"
  /\ probe # EmailTimeoutError
  /\ httpReq' = HttpReq("responded", SummaryRoute,
                        SummaryErrorStatus(SummaryFailure(probe)),
                        "none", TRUE, TRUE)
  /\ \E time \in ResponseTimeInputs :
       serverMetrics' = RecordResponse(serverMetrics, SummaryRoute,
                                       httpReq'.status, time)
  /\ UNCHANGED <<configIn, aiVars, emailVars, probeVars, now, env, client,
                 rateWindows, denials, served, overlaps, uploads,
                 cacheVars>>

\* email-service.js:141-146, ai-service.js:757-776: sendSummaryEmail fails
\* with the error probe; the catch block of POST /api/send-email answers.
SendEmailCatch ==
  /\ httpReq.pc = "none"
  /\ probe \notin {EmptyResponseError, AITimeoutError}
  /\ httpReq' = HttpReq("responded", EmailRoute,
                        EmailErrorStatus(SendFailure(probe)),
                        "none", TRUE, TRUE)
  /\ \E time \in ResponseTimeInputs :
       serverMetrics' = RecordResponse(serverMetrics, EmailRoute,
                                       httpReq'.status, time)
  /\ UNCHANGED <<configIn, aiVars, emailVars, probeVars, now, env, client,
                 rateWindows, denials, served, overlaps, uploads,
                 cacheVars>>

\* The catch blocks of the two routes alone, for every error.
InitCatch ==
  /\ configIn = [ai |-> <<>>, email |-> <<>>]
  /\ aiConfig = AIServiceConfig(configIn.ai)
  /\ aiMetrics = AIServiceMetrics
  /\ aiCalls = [c \in AICalls |-> IdleAICall]
  /\ emailMaxRetries = EmailServiceMaxRetries(configIn.email)
  /\ emailMetrics = EmailServiceMetrics
  /\ emailCall = IdleEmailCall
  /\ probe \in CatchInputs
  /\ verdict = [done |-> FALSE, ai |-> FALSE, email |-> FALSE]
  /\ env = [ai |-> TRUE, email |-> TRUE]
  /\ client = "none"
  /\ ServerStarted
  /\ CacheLoaded

NextCatch ==
  \/ GenerateSummaryCatch
  \/ SendEmailCatch

SpecCatch == InitCatch /\ [][NextCatch]_vars

\* ai-service.js:453-480: a response to a request of route is written with
\* statusCode; the responseTime callback runs with the path of the request
\* and the time measured.
responseTime(route, statusCode, time) ==
  /\ route = client
  /\ serverMetrics.requestCount < MaxSamples
  /\ serverMetrics' = RecordResponse(serverMetrics, Path(route), statusCode,
                                     time)
  /\ UNCHANGED <<configIn, aiVars, emailVars, probeVars, now, env, client,
                 rateWindows, httpReq, denials, served, overlaps,
                 uploads, cacheVars>>

\* Status codes of the responses the metrics middleware sees.
StatusCodeInputs == {200, 500}

\* The metrics middleware alone, one client calling one route.
InitMetrics ==
  /\ configIn = [ai |-> <<>>, email |-> <<>>]
  /\ aiConfig = AIServiceConfig(configIn.ai)
  /\ aiMetrics = AIServiceMetrics
  /\ aiCalls = [c \in AICalls |-> IdleAICall]
  /\ emailMaxRetries = EmailServiceMaxRetries(configIn.email)
  /\ emailMetrics = EmailServiceMetrics
  /\ emailCall = IdleEmailCall
  /\ probe = NoError
  /\ verdict = [done |-> FALSE, ai |-> FALSE, email |-> FALSE]
  /\ env = [ai |-> TRUE, email |-> TRUE]
  /\ client \in Routes
  /\ ServerStarted
  /\ CacheLoaded

\* The n-th response took n ms, which tells the samples apart.
NextMetrics ==
  \E route \in Routes, statusCode \in StatusCodeInputs :
    responseTime(route, statusCode, serverMetrics.requestCount + 1)

SpecMetrics == InitMetrics /\ [][NextMetrics]_vars

\* Several callers share one AIService: the generateSummary calls that may
\* be in flight together, what the provider answers them and how long it
\* takes.
ConcurrentCalls == 1..NumConcurrent
ConcurrentResponseInputs == { Resp("# Summary A", 120), Resp("", 35) }
ConcurrentFailureInputs == { ServiceUnavailable }
ConcurrentDurationInputs == {100, 300}

InitConcurrent ==
  /\ configIn = [ai |-> <<1>>, email |-> <<>>]
  /\ aiConfig = AIServiceConfig(configIn.ai)
  /\ aiMetrics = AIServiceMetrics
  /\ aiCalls = [c \in ConcurrentCalls |-> IdleAICall]
  /\ emailMaxRetries = EmailServiceMaxRetries(configIn.email)
  /\ emailMetrics = EmailServiceMetrics
  /\ emailCall = IdleEmailCall
  /\ probe = NoError
  /\ verdict = [done |-> FALSE, ai |-> FALSE, email |-> FALSE]
  /\ env = [ai |-> TRUE, email |-> TRUE]
  /\ client = "none"
  /\ ServerStarted
  /\ CacheLoaded

\* Each turn of the event loop runs one call from one await to its next.
NextConcurrent ==
  \/ \E c \in ConcurrentCalls : GenerateSummary(c) /\ UNCHANGED hostVars
  \/ \E c \in ConcurrentCalls, r \in ConcurrentResponseInputs,
        d \in ConcurrentDurationInputs :
       RequestResolves(c, r, d) /\ UNCHANGED hostVars
  \/ \E c \in ConcurrentCalls, e \in ConcurrentFailureInputs :
       RequestRejects(c, e, 100) /\ UNCHANGED hostVars
  \/ \E c \in ConcurrentCalls : RequestTimesOut(c) /\ UNCHANGED hostVars
  \/ \E c \in ConcurrentCalls : BackoffElapses(c) /\ UNCHANGED hostVars

SpecConcurrent == InitConcurrent /\ [][NextConcurrent]_vars

\* What the provider and the transport answer when they answer at all.
LiveResponseInputs == { Resp("# Summary A", 120) }
LiveFailureInputs == { ServiceUnavailable, AuthFailed }

\* The calls of the two adapters with an external operation that answers,
\* fails, or never responds.
NextLive ==
  \/ \E c \in AICalls : SummaryRequest(c)
  \/ \E c \in AICalls, r \in LiveResponseInputs, d \in DurationInputs :
       RequestResolves(c, r, d) /\ UNCHANGED hostVars
  \/ \E c \in AICalls, e \in LiveFailureInputs, d \in DurationInputs :
       RequestRejects(c, e, d) /\ UNCHANGED hostVars
  \/ \E c \in AICalls : RequestTimesOut(c) /\ UNCHANGED hostVars
  \/ \E c \in AICalls : BackoffElapses(c) /\ UNCHANGED hostVars
  \/ \E data \in EmailDataInputs : EmailRequest(data)
  \/ \E i \in InfoInputs, d \in DurationInputs :
       SendMailResolves(i, d) /\ UNCHANGED hostVars
  \/ \E e \in LiveFailureInputs, d \in DurationInputs :
       SendMailRejects(e, d) /\ UNCHANGED hostVars
  \/ SendTimesOut /\ UNCHANGED hostVars
  \/ EmailBackoffElapses /\ UNCHANGED hostVars

\* Timers fire: the setTimeout of an attempt's timeout guard (ai-service.js:
\* 134-136, email-service.js:170-172) and the setTimeout of a backoff delay
\* (ai-service.js:130, email-service.js:165) run their callbacks once due.
TimersFire ==
  /\ \A c \in AICalls :
       /\ WF_vars(RequestTimesOut(c) /\ UNCHANGED hostVars)
       /\ WF_vars(BackoffElapses(c) /\ UNCHANGED hostVars)
  /\ WF_vars(SendTimesOut /\ UNCHANGED hostVars)
  /\ WF_vars(EmailBackoffElapses /\ UNCHANGED hostVars)

SpecLive == Init /\ [][NextLive]_vars /\ TimersFire

\* ------------------------------------------------------------------ claims

\* The rows of the decision table the claims refer to.
TableTimedOut(e) == Includes(e.message, TimedOutWords)
TableNetworkCodes == {"ECONNREFUSED", "ECONNRESET", "ETIMEDOUT", "ESOCKET"}
TableNetwork(e) == e.code \in TableNetworkCodes
TableRetryableStatus(e) == e.status \in {408, 429, 500, 502, 503, 504}
TableClientStatus(e) == e.status \in (400..499) \ {408, 429}
TableNone(e) ==
  ~TableTimedOut(e) /\ ~TableNetwork(e) /\ ~TableRetryableStatus(e)
  /\ ~TableClientStatus(e)

\* C1, per call: maxRetries = 2 and every attempt failed with a retryable
\* error.
C1Case(call, maxRetries) ==
  /\ call.pc = "done" /\ maxRetries = 2
  /\ call.invocations >= 1
  /\ call.failed = call.invocations
  /\ call.retryableFailed = call.failed

\* C1: with maxAttempts = 2, when every attempt fails with a retryable error
\* the operation is invoked exactly 3 times (attempts 0, 1, 2) and the retry
\* loop rejects with the error of the last attempt, in both adapters.
InvC1 ==
  /\ \A c \in AICalls :
       C1Case(aiCalls[c], aiConfig.maxRetries) =>
         /\ aiCalls[c].invocations = 3
         /\ aiCalls[c].attempt = 2
         /\ aiCalls[c].loop = Rejected(2, aiCalls[c].lastError)
  /\ C1Case(emailCall, emailMaxRetries) =>
       /\ emailCall.invocations = 3
       /\ emailCall.attempt = 2
       /\ emailCall.loop = SendRejected(2, emailCall.lastError)

WitnessC1 ==
  \E c \in AICalls :
    /\ C1Case(aiCalls[c], aiConfig.maxRetries)
    /\ aiCalls[c].invocations = 3
    /\ aiCalls[c].lastError = ServiceUnavailable
    /\ aiCalls[c].loop = Rejected(2, ServiceUnavailable)

\* C2: when the first attempt fails with a non-retryable error the operation
\* has been invoked exactly once, no backoff delay is slept and the retry
\* loop rejects with that error, whatever maxRetries is, in both adapters.
InvC2 ==
  /\ \A c \in AICalls :
       (aiCalls[c].failed = 1 /\ ~_isRetryableError(aiCalls[c].lastError)) =>
         /\ aiCalls[c].pc = "done"
         /\ aiCalls[c].invocations = 1
         /\ aiCalls[c].slept = <<>>
         /\ aiCalls[c].loop = Rejected(0, aiCalls[c].lastError)
  /\ (emailCall.failed = 1 /\ ~_isRetryableEmailError(emailCall.lastError)) =>
       /\ emailCall.pc = "done"
       /\ emailCall.invocations = 1
       /\ emailCall.slept = <<>>
       /\ emailCall.loop = SendRejected(0, emailCall.lastError)

WitnessC2 ==
  /\ emailMaxRetries = 2
  /\ emailCall.failed = 1
  /\ emailCall.lastError = AuthFailed
  /\ emailCall.invocations = 1
  /\ emailCall.loop = SendRejected(0, AuthFailed)

\* C3: after k retryable failures with k <= maxRetries the retry loop has not
\* given up, and when the operation then succeeds the loop resolves after
\* exactly k + 1 invocations with the response of invocation k + 1 and
\* nothing is invoked afterwards; for k = 0 no delay was slept and
\* generateSummary returns the provider's content unmodified.
InvC3 ==
  \A c \in AICalls :
    LET call == aiCalls[c] IN
    /\ (call.retryableFailed = call.failed /\ call.failed <= aiConfig.maxRetries)
         => call.loop.kind # "err"
    /\ call.loop.kind = "ok" =>
         /\ call.pc = "done"
         /\ call.retryableFailed = call.failed
         /\ call.invocations = call.failed + 1
         /\ call.loop.from = call.failed
         /\ Len(call.slept) = call.failed
         /\ (call.failed = 0 /\ call.result.kind = "ok") =>
              /\ call.slept = <<>>
              /\ call.value = call.loop.response.content
              /\ call.result.response = call.loop.response

WitnessC3 ==
  \E c \in AICalls :
    /\ aiConfig.maxRetries = 2
    /\ aiCalls[c].failed = 2
    /\ aiCalls[c].invocations = 3
    /\ aiCalls[c].loop = Resolved(2, Resp("# Summary A", 120))
    /\ aiCalls[c].value = "# Summary A"

\* C4 as claimed: the attempt index never exceeds the configured maxRetries,
\* and a call that reached the loop invokes the operation at least once and
\* at most maxRetries + 1 times, for every configured maxRetries >= 0.
InvC4 ==
  /\ configIn.ai # <<>> =>
       \A c \in AICalls :
         /\ aiCalls[c].attempt <= configIn.ai[1]
         /\ aiCalls[c].invocations <= configIn.ai[1] + 1
         /\ aiCalls[c].pc # "idle" => aiCalls[c].invocations >= 1
  /\ configIn.email # <<>> =>
       /\ emailCall.attempt <= configIn.email[1]
       /\ emailCall.invocations <= configIn.email[1] + 1
       /\ emailCall.loop.kind # "none" => emailCall.invocations >= 1

\* C5, one step of a call (before, after): the timer of the awaited attempt
\* fires before its operation has settled.
TimerWins(before, after) ==
  before.pc = "race" /\ before.attempt \in after.late \ before.late

\* C5, one step of a call: an operation settles after its timer had fired.
LateArrival(before, after) ==
  after.late # before.late /\ after.late \subseteq before.late

\* C5, one step of a call: the awaited attempt's operation settles first.
OperationWins(before, after) ==
  before.pc = "race" /\ after.pc # "race" /\ after.late = before.late

\* C5, one step of a call: nothing the call has decided or will return changes.
Untouched(before, after) ==
  /\ after.pc = before.pc /\ after.attempt = before.attempt
  /\ after.lastError = before.lastError /\ after.loop = before.loop
  /\ after.result = before.result /\ after.value = before.value
  /\ after.invocations = before.invocations /\ after.failed = before.failed

\* C5, one step of a call, given its timeout error and how the adapter's
\* classifier answers for it.
C5Step(before, after, timeoutRetryable, timeoutError, maxRetries) ==
  /\ TimerWins(before, after) =>
       /\ after.elapsed = before.elapsed + 30000
       /\ after.lastError = timeoutError
       /\ Includes(timeoutError.message, TimedOutWords)
       /\ timeoutRetryable
       /\ after.failed = before.failed + 1
       /\ after.retryableFailed = before.retryableFailed + 1
       /\ IF before.attempt < maxRetries
            THEN after.pc = "sleep" /\ after.attempt = before.attempt + 1
            ELSE after.pc = "done" /\ after.loop.kind = "err"
                 /\ after.loop.error = timeoutError
  /\ OperationWins(before, after) =>
       /\ after.failed = before.failed \/ after.lastError # timeoutError
       /\ after.loop.kind # "none" => after.loop.from = before.attempt
  /\ LateArrival(before, after) =>
       /\ Untouched(before, after)
       /\ after.discarded = before.discarded + 1

\* C5: an attempt whose operation has not settled when the timer fires fails
\* with the timed-out error, which is classified retryable; the one of
\* operation and timer that settles first decides the attempt; a result that
\* arrives after the timer fired changes neither the value nor the error of
\* the call, nor the metrics. In both adapters.
PropC5 ==
  [][ /\ \A c \in AICalls :
           /\ C5Step(aiCalls[c], aiCalls'[c], _isRetryableError(AITimeoutError),
                     AITimeoutError, aiConfig.maxRetries)
           /\ LateArrival(aiCalls[c], aiCalls'[c]) => aiMetrics' = aiMetrics
      /\ C5Step(emailCall, emailCall', _isRetryableEmailError(EmailTimeoutError),
                EmailTimeoutError, emailMaxRetries)
      /\ LateArrival(emailCall, emailCall') => emailMetrics' = emailMetrics
    ]_vars

WitnessC5 ==
  \E c \in AICalls :
    /\ aiCalls[c].pc = "race"
    /\ aiCalls[c].attempt = 1
    /\ aiCalls[c].lastError = AITimeoutError
    /\ aiCalls[c].discarded = 1
    /\ aiCalls[c].late = {}
    /\ aiCalls[c].loop.kind = "none"

\* C6: in the AI path an error whose status is 408, 429, 500, 502, 503 or 504
\* is classified retryable, and an error with any other status in 400..499
\* that matches no earlier row of the table is classified non-retryable.
InvC6 ==
  verdict.done =>
    /\ TableRetryableStatus(probe) => verdict.ai
    /\ (TableClientStatus(probe) /\ ~TableTimedOut(probe) /\ ~TableNetwork(probe))
         => ~verdict.ai

WitnessC6 ==
  /\ verdict.done
  /\ probe = Err(<<"Unexpected", "failure">>, "EAUTH", 404)
  /\ ~verdict.ai

\* C7 as claimed: an error whose code is ECONNREFUSED, ECONNRESET, ETIMEDOUT
\* or ESOCKET is classified retryable in the AI path and in the email path.
InvC7 ==
  (verdict.done /\ TableNetwork(probe)) => (verdict.ai /\ verdict.email)

\* C8, per call: the error of the attempt that failed last, when it matches
\* no row of the table, ended the retry loop.
NotRetried(call) ==
  /\ call.pc = "done"
  /\ call.loop.kind = "err"
  /\ call.loop.error = call.lastError
  /\ call.loop.from = call.failed - 1
  /\ call.invocations = call.failed

\* C8 as claimed: a failure that matches no row of the table is classified
\* non-retryable and is never retried, in both adapters.
InvC8Claimed ==
  /\ \A c \in AICalls :
       (aiCalls[c].failed >= 1 /\ TableNone(aiCalls[c].lastError)) =>
         ~_isRetryableError(aiCalls[c].lastError) /\ NotRetried(aiCalls[c])
  /\ (emailCall.failed >= 1 /\ TableNone(emailCall.lastError)) =>
       ~_isRetryableEmailError(emailCall.lastError) /\ NotRetried(emailCall)

\* The codes the email adapter retries beyond the table's network codes.
EmailOnlyRetryableCodes == {"EENVELOPE", "EMESSAGE", "421", "450", "451", "452"}

\* C8 amended: a failure that matches no row of the table is classified
\* non-retryable and is never retried in the AI adapter; in the email adapter
\* the same holds unless its code is EENVELOPE, EMESSAGE, 421, 450, 451 or 452.
InvC8 ==
  /\ \A c \in AICalls :
       (aiCalls[c].failed >= 1 /\ TableNone(aiCalls[c].lastError)) =>
         ~_isRetryableError(aiCalls[c].lastError) /\ NotRetried(aiCalls[c])
  /\ (emailCall.failed >= 1 /\ TableNone(emailCall.lastError)
        /\ emailCall.lastError.code \notin EmailOnlyRetryableCodes) =>
       ~_isRetryableEmailError(emailCall.lastError) /\ NotRetried(emailCall)

WitnessC8 ==
  \E c \in AICalls :
    /\ aiConfig.maxRetries = 2
    /\ aiCalls[c].failed = 2
    /\ aiCalls[c].lastError = BadEnvelope
    /\ NotRetried(aiCalls[c])

\* C9, one step of a call: the race resolves with empty or missing content.
EmptyCompletion(before, after) ==
  /\ before.pc = "race" /\ after.loop.kind = "ok"
  /\ Falsy(after.loop.response.content)

\* C9: when the provider call succeeds with empty or missing content,
\* generateSummary rejects and the provider is not invoked again for the call
\* (exactly once when no attempt had failed); failureCount grows by 1 and
\* successCount, totalTokensUsed and averageLatency keep their values.
PropC9 ==
  [][ \A c \in AICalls :
        /\ EmptyCompletion(aiCalls[c], aiCalls'[c]) =>
             /\ aiCalls'[c].pc = "done"
             /\ aiCalls'[c].result.kind = "err"
             /\ aiCalls'[c].result.error = SummaryFailure(EmptyResponseError)
             /\ aiCalls'[c].invocations = aiCalls[c].invocations
             /\ aiCalls[c].failed = 0 => aiCalls'[c].invocations = 1
             /\ aiMetrics'.failureCount = aiMetrics.failureCount + 1
             /\ aiMetrics'.successCount = aiMetrics.successCount
             /\ aiMetrics'.totalTokensUsed = aiMetrics.totalTokensUsed
             /\ aiMetrics'.averageLatency = aiMetrics.averageLatency
        /\ aiCalls[c].pc = "done" =>
             /\ aiCalls'[c].pc = "done"
             /\ aiCalls'[c].invocations = aiCalls[c].invocations
    ]_vars

WitnessC9 ==
  \E c \in AICalls :
    /\ aiCalls[c].pc = "done"
    /\ aiCalls[c].loop = Resolved(0, Resp("", 35))
    /\ aiCalls[c].result.kind = "err"
    /\ aiCalls[c].invocations = 1
    /\ aiMetrics.failureCount = 1
    /\ aiMetrics.successCount = 0

RECURSIVE SumSeq(_)
SumSeq(q) == IF q = <<>> THEN 0 ELSE Head(q) + SumSeq(Tail(q))

\* sum of base * 2^(i + shift) for i = 0 .. k - 1
RECURSIVE BackoffSum(_, _, _)
BackoffSum(base, shift, k) ==
  IF k = 0 THEN 0 ELSE BackoffSum(base, shift, k - 1) + base * Pow2(k - 1 + shift)

\* C10 as claimed: in the AI path the delay slept after failed attempt i is
\* 500 * 2^i, so a call that failed k times and then succeeded has slept the
\* sum of 500 * 2^i for i = 0..k-1.
InvC10Claimed ==
  \A c \in AICalls :
    LET call == aiCalls[c] IN
    /\ \A n \in 1..Len(call.slept) : call.slept[n] = 500 * Pow2(n - 1)
    /\ call.pc = "sleep" => call.delay = 500 * Pow2(call.attempt - 1)
    /\ call.loop.kind = "ok" =>
         SumSeq(call.slept) = BackoffSum(500, 0, call.failed)

\* C10 amended: in the AI path the delay slept after failed attempt i is
\* 500 * 2^(i+1) (1000, 2000, 4000 ms, ...), a function of the attempt index
\* alone, so a call that failed k times and then succeeded has slept the sum
\* of 500 * 2^(i+1) for i = 0..k-1.
InvC10 ==
  \A c \in AICalls :
    LET call == aiCalls[c] IN
    /\ \A n \in 1..Len(call.slept) : call.slept[n] = 500 * Pow2(n)
    /\ call.pc = "sleep" =>
         /\ call.delay = 500 * Pow2(call.attempt)
         /\ call.attempt = call.failed
         /\ Len(call.slept) = call.failed - 1
    /\ call.loop.kind = "ok" =>
         /\ Len(call.slept) = call.failed
         /\ SumSeq(call.slept) = BackoffSum(500, 1, call.failed)

WitnessC10 ==
  \E c \in AICalls :
    /\ aiCalls[c].loop.kind = "ok"
    /\ aiCalls[c].failed = 2
    /\ aiCalls[c].slept = <<1000, 2000>>
    /\ SumSeq(aiCalls[c].slept) = 3000

\* C11: in the email path with maxRetries = 2 the delay slept before the
\* first retry is 2000 ms and before the second retry 4000 ms, whatever the
\* retryable errors were; nothing is slept before attempt 0, and every attempt
\* is given 30000 ms before its timer fires.
InvC11 ==
  emailMaxRetries = 2 =>
    /\ emailCall.slept \in {<<>>, <<2000>>, <<2000, 4000>>}
    /\ emailCall.pc = "sleep" =>
         /\ emailCall.attempt \in {1, 2}
         /\ emailCall.delay = (IF emailCall.attempt = 1 THEN 2000 ELSE 4000)
         /\ Len(emailCall.slept) = emailCall.attempt - 1
         /\ _isRetryableEmailError(emailCall.lastError)
    /\ emailCall.pc = "race" => Len(emailCall.slept) = emailCall.attempt
    /\ emailCall.invocations >= 1 =>
         Len(emailCall.slept) = emailCall.invocations - 1
    /\ emailCall.attempt = 0 => emailCall.slept = <<>> /\ emailCall.delay = 0
    /\ EmailTimeout = 30000

WitnessC11 ==
  /\ emailMaxRetries = 2
  /\ emailCall.slept = <<2000, 4000>>
  /\ emailCall.pc = "done"
  /\ emailCall.lastError = BadEnvelope
  /\ emailCall.failed = 3

\* C12: the policies as claimed.
C12Policy(l) ==
  IF l = "api" THEN [windowMs |-> 900000, max |-> 100]
  ELSE IF l = "summarize" THEN [windowMs |-> 120000, max |-> 5]
  ELSE [windowMs |-> 3600000, max |-> 20]

\* C12, one step: a request arrives.
RequestArrives == rateWindows' # rateWindows \/ denials' # denials

\* C12, one step, for limiter l when the arriving request reaches it.
C12Step(l) ==
  LET w    == rateWindows[l]
      P    == C12Policy(l)
      live == w # NoWindow /\ now - w.windowStart < P.windowMs
      reached == l = "api"
                   \/ (l = RouteLimiter(client) /\ httpReq'.deniedBy # "api")
  IN IF RequestArrives /\ reached
       THEN /\ (live /\ w.count >= P.max) =>
                 /\ httpReq'.status = 429 /\ httpReq'.deniedBy = l
                 /\ rateWindows'[l] = w
            /\ (live /\ w.count < P.max) =>
                 /\ httpReq'.deniedBy # l
                 /\ rateWindows'[l] = [w EXCEPT !.count = @ + 1]
            /\ ~live =>
                 /\ httpReq'.deniedBy # l
                 /\ rateWindows'[l] = [count |-> 1, windowStart |-> now]
       ELSE rateWindows'[l] = w

\* C12: for the client's key on one route, each limiter (general API 100 per
\* 15 min, summary generation 5 per 2 min, email send 20 per 1 hour) admits a
\* request while fewer than `ceiling` were admitted in the current window and
\* denies it with 429 otherwise, so exactly `ceiling` are admitted in a window
\* and the next one is denied; once the window duration has elapsed since the
\* window start the next request is admitted and starts a new window with
\* count 1.
PropC12 ==
  /\ [](\A l \in Limiters : rateWindows[l].count <= C12Policy(l).max)
  /\ [][\A l \in Limiters : C12Step(l)]_vars

WitnessC12 ==
  /\ client = SummaryRoute
  /\ now = 120000
  /\ denials = 1
  /\ rateWindows["summarize"] = [count |-> 1, windowStart |-> 120000]
  /\ rateWindows["api"] = [count |-> 7, windowStart |-> 0]

\* C13: a request that a rate limiter denies starts no provider call and no
\* SMTP send, and leaves the adapters' calls and counters as they were.
PropC13 ==
  [][ denials' # denials =>
        /\ httpReq'.status = 429 /\ httpReq'.deniedBy \in Limiters
        /\ ~httpReq'.adapter
        /\ served' = served
        /\ aiCalls' = aiCalls /\ aiMetrics' = aiMetrics
        /\ emailCall' = emailCall /\ emailMetrics' = emailMetrics
    ]_vars

WitnessC13 ==
  /\ httpReq.deniedBy = "email" /\ httpReq.status = 429
  /\ served = 1
  /\ emailMetrics.emailsSent = 1
  /\ emailCall.pc = "done" /\ emailCall.invocations = 1

\* C14 as claimed: every request that one of the three limiters has denied
\* is counted by rateLimitCount and by errorCount.
InvC14 ==
  /\ serverMetrics.rateLimitCount >= denials
  /\ serverMetrics.errorCount >= denials

\* C15 as claimed: within 15 minutes of the start of the client's window at
\* most 10 requests to POST /api/send-email have been admitted.
InvC15 ==
  LET w == rateWindows["email"]
  IN (w # NoWindow /\ now - w.windowStart < EMAIL_RATE_LIMIT_WINDOW)
       => w.count <= EMAIL_RATE_LIMIT_MAX

\* The latest operation was the middleware running for a GET request that
\* does not skip the cache.
CachedLookup ==
  /\ cacheLast.op = "lookup"
  /\ cacheLast.req.method = "GET" /\ ~cacheLast.req.skipCache

\* The entry the middleware found in the store had not expired.
FoundUnexpired ==
  /\ cacheLast.found # NoEntry
  /\ cacheLast.at - cacheLast.found.storedAt < cacheLast.found.ttlMs

\* The body of the response an entry of the store was taken from: the value
\* itself, or the body property of the object an error was stored as.
StoredBody(entry) ==
  IF entry.from >= 200 /\ entry.from < 400 THEN entry.value ELSE entry.value.body

\* C16 as claimed: for a GET request whose key has an unexpired entry the
\* middleware answers with the stored body and does not invoke the downstream
\* handler.
InvC16 ==
  (CachedLookup /\ FoundUnexpired) =>
    /\ cacheLast.xcache = "HIT"
    /\ ~cacheLast.next
    /\ cacheLast.response.body = StoredBody(cacheLast.found)

\* C17: an entry is answered from the cache only while now - storedAt < ttl;
\* a lookup of a key whose entry has expired or was removed is a miss and
\* invokes the downstream handler, whose cacheable answer is stored with
\* storedAt the time of that answer; invalidate(key) removes the entry of key
\* and leaves the entries of the other keys unchanged, clear() removes every
\* entry.
PropC17 ==
  /\ [](CachedLookup =>
          IF FoundUnexpired /\ CachedBodyTruthy(cacheLast.found)
            THEN cacheLast.xcache = "HIT" /\ ~cacheLast.next
            ELSE cacheLast.xcache = "MISS" /\ cacheLast.next)
  /\ []((cacheLast.op = "respond" /\ cacheLast.stored) =>
          /\ mcache[cacheLast.req.key].storedAt = cacheLast.at
          /\ mcache[cacheLast.req.key].ttlMs = CacheDuration * 1000
          /\ StoredBody(mcache[cacheLast.req.key]) = cacheLast.response.body)
  /\ [](cacheLast.op = "clear" => \A k \in CacheKeys : mcache[k] = NoEntry)
  /\ [][ cacheLast'.op = "invalidate" =>
           \A k \in CacheKeys :
             mcache'[k] = IF k = cacheLast'.req.key THEN NoEntry ELSE mcache[k]
       ]_vars

WitnessC17 ==
  /\ CachedLookup
  /\ cacheLast.at = 60000
  /\ cacheLast.found.storedAt = 0
  /\ Truthy(cacheLast.found.value)
  /\ cacheLast.xcache = "MISS" /\ cacheLast.next

\* C18, for the statuses lo..hi taken as cacheable: an entry taken from a
\* response with any other status is the object {isError, status, body} of
\* that response; a response the handler gives to a request that missed is
\* stored exactly when its status is cacheable or the request has
\* cacheEvenErrors, as the body itself in the first case and as that object
\* in the second; a hit on an entry taken from a response with a status that
\* is not cacheable answers with the body and the status of that response.
C18Holds(lo, hi) ==
  /\ \A k \in CacheKeys :
       (mcache[k] # NoEntry /\ mcache[k].from \notin lo..hi) =>
         /\ IsError(mcache[k].value)
         /\ mcache[k].value = ErrorObject(mcache[k].from, mcache[k].value.body)
  /\ cacheLast.op = "respond" =>
       /\ cacheLast.stored =
            /\ cacheLast.xcache = "MISS"
            /\ \/ cacheLast.response.status \in lo..hi
               \/ cacheLast.req.cacheEvenErrors
       /\ cacheLast.stored =>
            mcache[cacheLast.req.key].value =
              IF cacheLast.response.status \in lo..hi
                THEN cacheLast.response.body
                ELSE ErrorObject(cacheLast.response.status,
                                 cacheLast.response.body)
  /\ (CachedLookup /\ cacheLast.xcache = "HIT"
         /\ cacheLast.found.from \notin lo..hi) =>
       /\ IsError(cacheLast.found.value)
       /\ cacheLast.response.status = cacheLast.found.from
       /\ cacheLast.response.body = cacheLast.found.value.body

\* C18 as claimed: only a response with a 2xx status is stored without the
\* request opting in.
InvC18Claimed == C18Holds(200, 299)

\* C18 amended: a response is stored if its status is in 200..399; a response
\* with any other status is stored only if the request opts in
\* (cacheEvenErrors), and a later hit on such an entry answers with the stored
\* body and its original status.
InvC18 == C18Holds(200, 399)

WitnessC18 ==
  /\ CachedLookup /\ cacheLast.xcache = "HIT"
  /\ cacheLast.found.value = ErrorObject(404, cacheLast.response.body)
  /\ cacheLast.found.from = 404
  /\ cacheLast.response.status = 404
  /\ ~cacheLast.req.cacheEvenErrors

\* C19, one step of the sendSummaryEmail call: the timer of the current
\* attempt fires while its sendMail is outstanding.
AttemptTimesOut ==
  /\ emailCall.pc = "race"
  /\ emailCall.attempt \notin emailCall.late
  /\ emailCall.attempt \in emailCall'.late

\* C19: when the timer of an attempt fires, its sendMail stays outstanding
\* and, while attempts remain, the message is sent again after the backoff;
\* the transport accepts the message at most once per sendMail invocation
\* and at least once for a call that returns success.
PropC19 ==
  /\ [](emailCall.accepted <= emailCall.invocations)
  /\ []((emailCall.pc = "done" /\ emailCall.result.kind = "ok") =>
          emailCall.accepted >= 1)
  /\ [][ AttemptTimesOut =>
           /\ emailCall'.lastError = EmailTimeoutError
           /\ IF emailCall.attempt < emailMaxRetries
                THEN /\ emailCall'.pc = "sleep"
                     /\ emailCall'.attempt = emailCall.attempt + 1
                ELSE /\ emailCall'.pc = "done"
                     /\ emailCall'.result.kind = "err"
       ]_vars

\* One call whose message the transport accepted twice.
WitnessC19 ==
  /\ emailCall.pc = "done"
  /\ emailCall.result.kind = "ok"
  /\ emailCall.value.success
  /\ emailCall.invocations = 2
  /\ emailCall.accepted = 2
  /\ emailCall.discarded = 1

\* The error the callers of the two adapters are to receive for a failed
\* call whose retry loop rejected with error: that error, unchanged.
C20Rethrown(error) == error

\* The generateSummary call c has ended after its retry loop rejected.
AITerminalFailure(c) ==
  aiCalls[c].pc = "done" /\ aiCalls[c].loop.kind = "err"

\* The sendSummaryEmail call has ended after its retry loop rejected.
EmailTerminalFailure ==
  emailCall.pc = "done" /\ emailCall.loop.kind = "err"

\* C20 as claimed: the caller of generateSummary / sendSummaryEmail receives
\* the last attempt's error unchanged.
InvC20Claimed ==
  /\ \A c \in AICalls :
       AITerminalFailure(c) =>
         /\ aiCalls[c].result.kind = "err"
         /\ aiCalls[c].result.error = C20Rethrown(aiCalls[c].loop.error)
  /\ EmailTerminalFailure =>
       /\ emailCall.result.kind = "err"
       /\ emailCall.result.error = C20Rethrown(emailCall.loop.error)

\* C21: the failure has no status and a message that speaks of a rate limit
\* or a quota; the table's kind is Unknown, and RateLimited is accepted too.
C21SaysRateLimit(e) ==
  /\ e.status = 0
  /\ \/ Includes(e.message, <<"rate", "limit">>)
     \/ Includes(e.message, <<"quota">>)

\* C21: the status codes the claim gives for a terminal adapter failure,
\* by the kind the decision table gives the failure.
C21Claimed(e) ==
  IF TableTimedOut(e) THEN {504}
  ELSE IF TableNetwork(e) THEN {500, 503}
  ELSE IF e.status = 429 THEN {429}
  ELSE IF TableRetryableStatus(e) THEN {500, 503}
  ELSE IF TableClientStatus(e) \/ e = EmptyResponseError THEN {400}
  ELSE IF C21SaysRateLimit(e) THEN {429, 500, 503}
  ELSE {500, 503}

\* C21 as claimed: a route answers a terminal adapter failure with the status
\* code of its kind: Timeout 504, RateLimited (provider status 429) 429,
\* ValidationFault (empty completion, other provider 4xx) 400,
\* ServerFault / Network / Unknown 500 or 503.
InvC21 ==
  httpReq.pc = "responded" => httpReq.status \in C21Claimed(probe)

\* C22: a recipient list with an address that is not syntactically valid.
InvalidRecipient(data) ==
  \E i \in 1..Len(data.recipients) : ~EmailRegexTest(data.recipients[i])

\* C22 as claimed: sendSummaryEmail rejects a recipient list with an address
\* that is not syntactically valid before the retry loop: sendMail is never
\* invoked and no delay is slept.
InvC22Claimed ==
  (emailCall.pc # "idle" /\ InvalidRecipient(emailCall.data)) =>
    /\ emailCall.pc = "done"
    /\ emailCall.result.kind = "err"
    /\ emailCall.invocations = 0
    /\ emailCall.slept = <<>>

\* C22 amended: sendSummaryEmail rejects before the retry loop exactly the
\* calls whose recipient list is empty or whose summary is missing: sendMail
\* is not invoked, no delay is slept and no counter changes; a list with an
\* address that is not syntactically valid passes, and sendMail is invoked.
\* Such a list is rejected by the POST /api/send-email route, which answers
\* 400 instead of calling sendSummaryEmail.
InvC22 ==
  emailCall.pc # "idle" =>
    /\ IF Len(emailCall.data.recipients) = 0 \/ Falsy(emailCall.data.summary)
         THEN /\ emailCall.pc = "done"
              /\ emailCall.result.kind = "err"
              /\ emailCall.result.error \in {RecipientsError, SummaryRequiredError}
              /\ emailCall.invocations = 0
              /\ emailCall.slept = <<>>
              /\ emailMetrics = EmailServiceMetrics
         ELSE emailCall.invocations >= 1
    /\ InvalidRecipient(emailCall.data) =>
         EmailRequestStatus(EmailBody("array", emailCall.data.recipients,
                                      "Weekly sync", "# Notes"), TRUE) = 400

WitnessC22 ==
  /\ emailCall.data.recipients = <<NotAnEmail>>
  /\ InvalidRecipient(emailCall.data)
  /\ emailCall.invocations = 1
  /\ emailCall.pc = "done"
  /\ emailCall.result.kind = "ok"

\* C23 as claimed: every attempt of a call, successful or failed, is recorded
\* in the metrics of the service: once a call has ended the metrics have
\* recorded at least as many outcomes as the call made attempts (three for a
\* call whose first two attempts failed and whose third succeeded: two
\* retries and a success).
InvC23 ==
  \A c \in AICalls :
    aiCalls[c].pc = "done" =>
      aiMetrics.successCount + aiMetrics.failureCount >= aiCalls[c].invocations

\* C24: the window holds the latest min(n, 100) of the n samples 1, 2, .., n
\* in arrival order.
LatestSamples(times, n) ==
  LET k == IF n < 100 THEN n ELSE 100
  IN times = [i \in 1..k |-> n - k + i]

\* C24: lastSummaryTimes and lastEmailTimes never hold more than 100 entries;
\* after n samples a window holds the most recent min(n, 100) samples in
\* arrival order, the oldest being evicted when a sample arrives at a full
\* window; the request counters only increase.
PropC24 ==
  /\ [](/\ Len(serverMetrics.lastSummaryTimes) <= 100
        /\ Len(serverMetrics.lastEmailTimes) <= 100
        /\ LatestSamples(serverMetrics.lastSummaryTimes,
                         serverMetrics.summaryRequestCount)
        /\ LatestSamples(serverMetrics.lastEmailTimes,
                         serverMetrics.emailRequestCount))
  /\ [][ /\ serverMetrics'.requestCount >= serverMetrics.requestCount
         /\ serverMetrics'.summaryRequestCount >= serverMetrics.summaryRequestCount
         /\ serverMetrics'.emailRequestCount >= serverMetrics.emailRequestCount
         /\ serverMetrics'.errorCount >= serverMetrics.errorCount
         /\ serverMetrics'.rateLimitCount >= serverMetrics.rateLimitCount
       ]_vars

\* The 101st sample has arrived at the full window of the summary route.
WitnessC24 ==
  /\ serverMetrics.summaryRequestCount = 101
  /\ Len(serverMetrics.lastSummaryTimes) = 100
  /\ serverMetrics.lastSummaryTimes[1] = 2
  /\ serverMetrics.lastSummaryTimes[100] = 101

\* The generateSummary calls that have returned a summary, and the sum of
\* their latencies over the calls 1..k.
ReturnedSummary(c) ==
  aiCalls[c].pc = "done" /\ aiCalls[c].result.kind = "ok"
Started(c) == aiCalls[c].pc # "idle"
InFlight(c) == aiCalls[c].pc \notin {"idle", "done"}
RECURSIVE LatencySum(_)
LatencySum(k) ==
  IF k = 0 THEN 0
  ELSE LatencySum(k - 1) + (IF ReturnedSummary(k) THEN aiCalls[k].elapsed ELSE 0)

\* C25: whatever the interleaving of the calls, averageLatency is the
\* arithmetic mean of the latencies of the calls that have returned a summary
\* so far (0 before the first), successCount is their number, and a call that
\* fails leaves averageLatency unchanged.
PropC25 ==
  /\ [](LET ok == {c \in DOMAIN aiCalls : ReturnedSummary(c)}
            n  == Cardinality(ok)
        IN /\ aiMetrics.successCount = n
           /\ aiMetrics.averageLatency =
                IF n = 0 THEN Frac(0, 1)
                ELSE Frac(LatencySum(Cardinality(DOMAIN aiCalls)), n))
  /\ [][ aiMetrics'.failureCount # aiMetrics.failureCount =>
           /\ aiMetrics'.averageLatency = aiMetrics.averageLatency
           /\ aiMetrics'.successCount = aiMetrics.successCount
       ]_vars

\* Three calls have returned a summary, with latencies 100, 300 and 1400 ms
\* (a failed attempt of 100 ms, 1000 ms of backoff, an attempt of 300 ms):
\* the mean is 600 ms.
WitnessC25 ==
  /\ aiMetrics.successCount = 3
  /\ \E a, b, c \in DOMAIN aiCalls :
       /\ ReturnedSummary(a) /\ aiCalls[a].elapsed = 100
       /\ ReturnedSummary(b) /\ aiCalls[b].elapsed = 300
       /\ ReturnedSummary(c) /\ aiCalls[c].elapsed = 1400
  /\ aiMetrics.averageLatency = Frac(600, 1)

\* C26: whatever the interleaving of the calls, at every await
\* requestCount = successCount + failureCount + requestsInProgress,
\* requestCount is the number of calls started and requestsInProgress the
\* number of calls started and not settled.
InvC26 ==
  /\ aiMetrics.requestCount =
       aiMetrics.successCount + aiMetrics.failureCount
         + aiMetrics.requestsInProgress
  /\ aiMetrics.requestCount = Cardinality({c \in DOMAIN aiCalls : Started(c)})
  /\ aiMetrics.requestsInProgress =
       Cardinality({c \in DOMAIN aiCalls : InFlight(c)})
  /\ aiMetrics.requestsInProgress >= 0

\* Two calls are suspended, one at its race and one at its backoff, while a
\* third has failed.
WitnessC26 ==
  /\ aiMetrics.requestsInProgress = 2
  /\ aiMetrics.failureCount = 1
  /\ \E a, b \in DOMAIN aiCalls :
       aiCalls[a].pc = "race" /\ aiCalls[b].pc = "sleep"

\* C27, per call: every attempt the call has made timed out.
AllTimedOut(call) ==
  call.invocations >= 1 /\ Cardinality(call.late) = call.invocations

\* C27: provided timers fire, every generateSummary and sendSummaryEmail
\* call that has started eventually settles; a call whose attempts all time
\* out makes maxRetries + 1 attempts and rejects; when no started call is
\* unsettled requestsInProgress is 0.
PropC27 ==
  /\ \A c \in AICalls : (aiCalls[c].pc # "idle") ~> (aiCalls[c].pc = "done")
  /\ (emailCall.pc # "idle") ~> (emailCall.pc = "done")
  /\ [](\A c \in AICalls :
          /\ aiCalls[c].invocations <= aiConfig.maxRetries + 1
          /\ (aiCalls[c].pc = "done" /\ AllTimedOut(aiCalls[c])) =>
               /\ aiCalls[c].invocations = aiConfig.maxRetries + 1
               /\ aiCalls[c].result.kind = "err"
          /\ aiCalls[c].pc = "done" => aiCalls[c].result.kind # "none")
  /\ [](/\ emailCall.invocations <= emailMaxRetries + 1
        /\ (emailCall.pc = "done" /\ AllTimedOut(emailCall)) =>
             /\ emailCall.invocations = emailMaxRetries + 1
             /\ emailCall.result.kind = "err"
        /\ emailCall.pc = "done" => emailCall.result.kind # "none")
  /\ []((\A c \in AICalls : aiCalls[c].pc \in {"idle", "done"}) =>
          aiMetrics.requestsInProgress = 0)

\* A generateSummary call whose three attempts all timed out has rejected.
WitnessC27 ==
  \E c \in AICalls :
    /\ aiCalls[c].pc = "done"
    /\ aiCalls[c].late = {0, 1, 2}
    /\ aiCalls[c].invocations = 3
    /\ aiCalls[c].result.kind = "err"
    /\ aiCalls[c].elapsed = 3 * 30000 + 1000 + 2000
    /\ aiMetrics.requestsInProgress = 0

\* C28: the provider requests of a call that have been sent and have not
\* settled: those whose timer fired first, and the one the call is awaiting.
Outstanding(call) ==
  Cardinality(call.late) + (IF call.pc = "race" THEN 1 ELSE 0)

\* C28, one step of call c: requestFn is invoked for a new attempt.
AttemptStarts(c) == aiCalls'[c].invocations # aiCalls[c].invocations

\* C28: within one generateSummary call an attempt after the first is
\* started only from the backoff wait that followed the observed failure of
\* the attempt before it, once its whole delay has elapsed; the requests of
\* timed-out attempts stay outstanding, and a call never has more than
\* maxRetries + 1 requests outstanding.
PropC28 ==
  /\ [](\A c \in AICalls :
          /\ Outstanding(aiCalls[c]) <= aiConfig.maxRetries + 1
          /\ aiCalls[c].pc = "race" =>
               /\ aiCalls[c].invocations = aiCalls[c].attempt + 1
               /\ aiCalls[c].failed = aiCalls[c].attempt
               /\ aiCalls[c].attempt \notin aiCalls[c].late)
  /\ [][ \A c \in AICalls :
           AttemptStarts(c) =>
             /\ aiCalls'[c].invocations = aiCalls[c].invocations + 1
             /\ aiCalls'[c].pc = "race"
             /\ IF aiCalls[c].pc = "idle"
                  THEN aiCalls'[c].attempt = 0 /\ aiCalls'[c].slept = <<>>
                  ELSE /\ aiCalls[c].pc = "sleep"
                       /\ aiCalls[c].failed = aiCalls[c].attempt
                       /\ aiCalls[c].lastError # NoError
                       /\ aiCalls'[c].attempt = aiCalls[c].attempt
                       /\ aiCalls'[c].slept =
                            Append(aiCalls[c].slept, AIBackoffDelay(aiCalls[c].attempt))
                       /\ aiCalls'[c].elapsed =
                            aiCalls[c].elapsed + AIBackoffDelay(aiCalls[c].attempt)
       ]_vars

\* Three requests of one call are outstanding: attempts 0 and 1 timed out
\* and were not cancelled, attempt 2 is awaited.
WitnessC28 ==
  \E c \in AICalls :
    /\ aiConfig.maxRetries = 2
    /\ aiCalls[c].pc = "race"
    /\ aiCalls[c].attempt = 2
    /\ aiCalls[c].late = {0, 1}
    /\ Outstanding(aiCalls[c]) = 3

\* C29: the limiter the claim gives each route as its own.
C29RouteLimiter ==
  IF client = SummaryRoute THEN "summarize"
  ELSE IF client = EmailRoute THEN "email"
  ELSE "none"

\* C29, one step: the arriving request consumes one unit of limiter l's
\* window (the live one, or a new one that starts now).
C29Consumes(l) ==
  LET w == rateWindows[l]
      live == w # NoWindow /\ now - w.windowStart < C12Policy(l).windowMs
  IN rateWindows'[l] = IF live THEN [w EXCEPT !.count = @ + 1]
                               ELSE [count |-> 1, windowStart |-> now]

\* C29: a request to /api/generate-summary or /api/send-email is checked by
\* the general limiter first and by the limiter of its route second: one
\* that the general limiter denies leaves the route's window untouched, one
\* that the route's limiter denies has consumed one unit of the general
\* window, and one that reaches the handler has consumed one unit of both;
\* the steps of the adapter inside an admitted request, its retries
\* included, consume nothing.
PropC29 ==
  [][ IF RequestArrives
        THEN /\ httpReq'.deniedBy = "api" =>
                  /\ \A l \in Limiters : rateWindows'[l] = rateWindows[l]
                  /\ ~httpReq'.adapter
             /\ (httpReq'.deniedBy \in Limiters \ {"api"}) =>
                  /\ httpReq'.deniedBy = C29RouteLimiter
                  /\ C29Consumes("api")
                  /\ rateWindows'[C29RouteLimiter] = rateWindows[C29RouteLimiter]
                  /\ ~httpReq'.adapter
             /\ (httpReq'.deniedBy = "none" /\ C29RouteLimiter # "none") =>
                  /\ C29Consumes("api")
                  /\ C29Consumes(C29RouteLimiter)
        ELSE rateWindows' = rateWindows
    ]_vars

\* After 94 health requests: five requests to /api/generate-summary are
\* admitted by both limiters and one of them makes three attempts at the
\* provider; the sixth is denied by the route's limiter and is the hundredth
\* the general limiter counts; the seventh is denied by the general limiter
\* and the route's window still holds five.
WitnessC29 ==
  /\ client = SummaryRoute
  /\ httpReq.deniedBy = "api"
  /\ denials = 2
  /\ rateWindows["api"].count = 100
  /\ rateWindows["summarize"].count = 5
  /\ served = 1
  /\ \E c \in AICalls : aiCalls[c].invocations = 3

\* C30, one step: the middleware ran for a request.
C30Lookup == lookups' # lookups

\* C30, one step: the downstream handler of a pending request answered.
C30Respond == Len(pending') < Len(pending)

\* C30: the store gets an entry only when the response to a miss is written,
\* and that entry holds the body of this response, whatever was stored under
\* the key before; a GET without skipCache that finds no entry under its key
\* is a miss and is passed on to the handler, also when the handler of an
\* earlier miss for the same key has not answered yet; a request that is not
\* a GET or is marked skipCache is passed on without a cache header whatever
\* the store holds, and its response leaves the store as it was.
PropC30 ==
  [][ LET req == cacheLast'.req
          bypass == req.method # "GET" \/ req.skipCache
      IN /\ \A k \in CacheKeys :
              (mcache'[k] # mcache[k] /\ mcache'[k] # NoEntry) =>
                 /\ C30Respond
                 /\ cacheLast'.op = "respond"
                 /\ cacheLast'.xcache = "MISS"
                 /\ ~bypass
                 /\ req.key = k
         /\ (C30Respond /\ cacheLast'.stored) =>
              /\ mcache'[req.key].value
                   \in {cacheLast'.response.body,
                        ErrorObject(cacheLast'.response.status,
                                    cacheLast'.response.body)}
              /\ mcache'[req.key].storedAt = now
         /\ (C30Lookup /\ ~bypass /\ mcache[req.key] = NoEntry) =>
              /\ cacheLast'.xcache = "MISS"
              /\ cacheLast'.next
              /\ pending' = Append(pending, Pending(req, TRUE))
              /\ mcache' = mcache
         /\ (C30Lookup /\ bypass) =>
              /\ cacheLast'.xcache = "none"
              /\ cacheLast'.next
              /\ pending' = Append(pending, Pending(req, FALSE))
              /\ mcache' = mcache
         /\ (C30Respond /\ bypass) => mcache' = mcache
    ]_vars

\* Two requests for /api/a were both misses and both handlers were invoked
\* before either answered; the first answer stored {"status":"ok"}, and the
\* answer written last, a 404 of a request that caches errors, has replaced
\* it while it was still fresh.
WitnessC30 ==
  /\ lookups = 2
  /\ now = 0
  /\ Len(pending) = 0
  /\ cacheLast.op = "respond"
  /\ cacheLast.stored
  /\ cacheLast.found # NoEntry
  /\ Truthy(cacheLast.found.value)
  /\ cacheLast.found.from = 200
  /\ cacheLast.response.status = 404
  /\ mcache[cacheLast.req.key].value
       = ErrorObject(404, cacheLast.response.body)

====
